---- MODULE Spec2Model ----
(***************************************************************************)
(* Damage tracking, repaint scheduling and the paint path of ClutterStage  *)
(* (clutter/clutter-stage.c), the construction and disposal of stage       *)
(* instances with the stage manager, the requests to the stage window,     *)
(* and ClutterTimeline (clutter-timeline.c).                               *)
(*                                                                         *)
(* For the paint path one stage is modelled.  Its private fields keep the  *)
(* names of struct _ClutterStagePrivate.  The GLib main loop is the set    *)
(* `sources` of attached source ids plus `dispatching`, the id of the      *)
(* source whose callback is running.  clutter_stage_paint is split where   *)
(* it calls out to the children's paint (line 411-416), because redraw     *)
(* requests made by actors while they are painted re-enter the stage at    *)
(* that point.  timeline_timeout_func is split at each signal it emits,    *)
(* because handlers call back into the timeline.                           *)
(***************************************************************************)
EXTENDS Integers, Sequences, FiniteSets, TLC

\* ------------------------------------------------------------------------
\* Bounds of the model
\* ------------------------------------------------------------------------
StageWidth == 3
StageHeight == 2
MaxAge == 4
MaxRequests == 2
MaxStages == 5
MaxNesting == 3
MaxFrames == 3
MaxSkip == 2
MaxActors == 4

\* Program constants
MAX_BUFFER_AGE == 2

\* ------------------------------------------------------------------------
\* ClutterGeometry
\* ------------------------------------------------------------------------
Geometry(gx, gy, gw, gh) == [x |-> gx, y |-> gy, width |-> gw, height |-> gh]

ZeroRect == Geometry(0, 0, 0, 0)

\* "invalid" in the sense of the source: a non-positive dimension
IsValid(r) == r.width > 0 /\ r.height > 0

\* clutter_actor_get_geometry of the stage: it sits at the origin
StageGeometry == Geometry(0, 0, StageWidth, StageHeight)

\* ------------------------------------------------------------------------
\* clutter_stage_set_damaged_area
\* ------------------------------------------------------------------------

\* variant: only the near edges are clipped
ClipToScreenNearEdges(area) ==
  LET a1 == IF area.x < 0
            THEN [area EXCEPT !.width = area.width + area.x, !.x = 0]
            ELSE area
      a2 == IF a1.y < 0
            THEN [a1 EXCEPT !.height = a1.height + a1.y, !.y = 0]
            ELSE a1
      a3 == IF a2.x > StageWidth \/ a2.y > StageHeight
            THEN ZeroRect
            ELSE a2
  IN a3

\* "clip to the screen"
ClipToScreen(area) ==
  LET a1 == IF area.x < 0
            THEN [area EXCEPT !.width = area.width + area.x, !.x = 0]
            ELSE area
      a2 == IF a1.y < 0
            THEN [a1 EXCEPT !.height = a1.height + a1.y, !.y = 0]
            ELSE a1
      a3 == IF a2.x > StageWidth \/ a2.y > StageHeight
            THEN ZeroRect
            ELSE a2
      a4 == IF a3.x + a3.width > StageWidth
            THEN [a3 EXCEPT !.width = StageWidth - a3.x]
            ELSE a3
      a5 == IF a4.y + a4.height > StageHeight
            THEN [a4 EXCEPT !.height = StageHeight - a4.y]
            ELSE a4
  IN a5

\* variant: the origin is moved without growing the extent
ExpandDamageOriginOnly(d, area) ==
  LET d1 == IF area.x < d.x THEN [d EXCEPT !.x = area.x] ELSE d
      d2 == IF area.y < d1.y THEN [d1 EXCEPT !.y = area.y] ELSE d1
      d3 == IF area.x + area.width > d2.x + d2.width
            THEN [d2 EXCEPT !.width = (area.x + area.width) - d2.x]
            ELSE d2
      d4 == IF area.y + area.height > d3.y + d3.height
            THEN [d3 EXCEPT !.height = (area.y + area.height) - d3.y]
            ELSE d3
  IN d4

\* "else expand it": grow d to enclose area
ExpandDamage(d, area) ==
  LET d1 == IF area.x < d.x
            THEN [d EXCEPT !.width = d.width + (d.x - area.x), !.x = area.x]
            ELSE d
      d2 == IF area.y < d1.y
            THEN [d1 EXCEPT !.height = d1.height + (d1.y - area.y), !.y = area.y]
            ELSE d1
      d3 == IF area.x + area.width > d2.x + d2.width
            THEN [d2 EXCEPT !.width = (area.x + area.width) - d2.x]
            ELSE d2
      d4 == IF area.y + area.height > d3.y + d3.height
            THEN [d3 EXCEPT !.height = (area.y + area.height) - d3.y]
            ELSE d3
  IN d4

\* variant: an invalid area is ignored instead of invalidating the stage
SetDamagedAreaIgnoreInvalid(d, area) ==
  LET c == ClipToScreen(area) IN
  IF area.width <= 0 \/ area.height <= 0 \/ c.width <= 0 \/ c.height <= 0
  THEN d
  ELSE IF d.width <= 0 \/ d.height <= 0
       THEN c
       ELSE ExpandDamage(d, c)

\* the value of priv->damaged_area after clutter_stage_set_damaged_area(area)
\* when it was d before
SetDamagedArea(d, area) ==
  IF area.width <= 0 \/ area.height <= 0
  THEN ZeroRect
  ELSE LET c == ClipToScreen(area) IN
       IF c.width <= 0 \/ c.height <= 0
       THEN d
       ELSE IF d.width <= 0 \/ d.height <= 0
            THEN c
            ELSE ExpandDamage(d, c)

\* ------------------------------------------------------------------------
\* clutter_stage_paint: damage resolution
\* ------------------------------------------------------------------------

\* the for loop over the history: hist is the list with this frame's entry
\* already prepended, k the position of l (1-based), i the loop counter
RECURSIVE MergeHistory(_, _, _, _, _)
MergeHistory(hist, k, i, age, damaged) ==
  IF k > Len(hist)
  THEN [damaged_area |-> damaged, damage_history |-> hist]
  ELSE LET d1 == IF i < age THEN SetDamagedArea(damaged, hist[k]) ELSE damaged
           i1 == i + 1
           h1 == IF i1 > MAX_BUFFER_AGE THEN SubSeq(hist, 1, k) ELSE hist
       IN MergeHistory(h1, k + 1, i1, age, d1)

\* variant: "g_slist_length (priv->damage_history) >= age"
ResolveBufferAgeOffByOne(damaged, history, age) ==
  LET hist == <<damaged>> \o history IN
  IF age /= 0
  THEN IF Len(hist) >= age
       THEN MergeHistory(hist, 2, 0, age, damaged)
       ELSE [damaged_area |-> ZeroRect, damage_history |-> hist]
  ELSE [damaged_area |-> damaged, damage_history |-> <<>>]

\* variant: the frame's entry is written after the merge, as in the
\* DOUBLE_BUFFER branch
ResolveBufferAgePushResolved(damaged, history, age) ==
  LET hist == <<damaged>> \o history IN
  IF age /= 0
  THEN IF Len(hist) > age
       THEN LET m == MergeHistory(hist, 2, 0, age, damaged) IN
            [damaged_area |-> m.damaged_area,
             damage_history |-> [m.damage_history EXCEPT ![1] = m.damaged_area]]
       ELSE [damaged_area |-> ZeroRect, damage_history |-> hist]
  ELSE [damaged_area |-> damaged, damage_history |-> <<>>]

\* CLUTTER_FEATURE_BUFFER_AGE available
ResolveBufferAge(damaged, history, age) ==
  LET hist == <<damaged>> \o history IN
  IF age /= 0
  THEN IF Len(hist) > age
       THEN MergeHistory(hist, 2, 0, age, damaged)
       ELSE [damaged_area |-> ZeroRect, damage_history |-> hist]
  ELSE [damaged_area |-> damaged, damage_history |-> <<>>]

\* DOUBLE_BUFFER without buffer age: the single history slot is merged into
\* the pending damage and then overwritten with the result
ResolveDoubleBuffer(damaged, history) ==
  LET d1 == SetDamagedArea(damaged, history[1]) IN
  [damaged_area |-> d1, damage_history |-> [history EXCEPT ![1] = d1]]

\* variant: the test for the whole screen is left out
UpdateAreaSmallOnly(d) == d.width > 0 /\ d.height > 0

\* "If we only had a small area, redraw that / Or if it was the whole
\* screen, just skip the small redraw overhead"
UpdateArea(d) ==
  LET small == d.width > 0 /\ d.height > 0 IN
  IF d.x <= 0 /\ d.y <= 0 /\ d.width >= StageWidth /\ d.height >= StageHeight
  THEN FALSE
  ELSE small

\* ------------------------------------------------------------------------
\* Repaint scheduling: the idle/timeout source of a stage
\* ------------------------------------------------------------------------

\* id of a newly attached GLib source: non-zero and not in use
NewSourceId(busy) ==
  CHOOSE n \in 1..(Cardinality(busy) + 1) :
    n \notin busy /\ \A m \in 1..(n - 1) : m \in busy

\* variant: a source is added without looking at update_idle
AddRedrawSourceAlways(u, srcs, busy) ==
  LET id == NewSourceId(busy) IN
  [update_idle |-> id, sources |-> srcs \cup {id}]

\* "if (!stage->priv->update_idle) stage->priv->update_idle =
\*    clutter_threads_add_idle_full / clutter_threads_add_timeout_full (...)"
\* u is update_idle, srcs the attached sources, busy the ids in use.
\* CLUTTER_REDRAW_DAMAGE_INTERVAL only selects between a timeout and an idle
\* source; both are one source whose callback is redraw_update_idle.
AddRedrawSource(u, srcs, busy) ==
  IF u = 0
  THEN LET id == NewSourceId(busy) IN
       [update_idle |-> id, sources |-> srcs \cup {id}]
  ELSE [update_idle |-> u, sources |-> srcs]

\* variant: the shaped mode test is inverted
RedrawInvocationsInverted(mode) == IF mode /= 0 THEN 1 ELSE 0

\* redraw_update_idle: "if (priv->shaped_mode) return FALSE;
\*                      clutter_redraw (stage);"
\* the number of times the callback calls clutter_redraw
RedrawInvocations(mode) == IF mode /= 0 THEN 0 ELSE 1

\* variant: the source is removed but update_idle keeps its id
RemoveRedrawSourceKeepId(u, srcs) ==
  [update_idle |-> u, sources |-> srcs \ {u}]

\* variant: update_idle is cleared but the source stays attached
RemoveRedrawSourceForgetOnly(u, srcs) ==
  [update_idle |-> 0, sources |-> srcs]

\* "if (priv->update_idle) { g_source_remove (priv->update_idle);
\*                           priv->update_idle = 0; }"
RemoveRedrawSource(u, srcs) ==
  IF u /= 0
  THEN [update_idle |-> 0, sources |-> srcs \ {u}]
  ELSE [update_idle |-> u, sources |-> srcs]

\* ------------------------------------------------------------------------
\* clutter_stage_paint: clip and clear; clutter_stage_pick
\* ------------------------------------------------------------------------

\* "if (update_area) { ... cogl_clip_set (...) ... }": depth is the number
\* of clips that are set
ClipSet(depth, ua) == IF ua THEN depth + 1 ELSE depth

\* "cogl_paint_init (update_area ? 0 : &priv->color)": whether the buffer
\* is cleared to the stage colour
PaintInitClears(ua) == ~ua

\* "if (update_area) { cogl_clip_unset (); }"
ClipUnset(depth, ua) == IF ua THEN depth - 1 ELSE depth

\* variant: the pending damage is reset only where a clip was unset
ResetDamagedAreaIfClipped(d, ua) == IF ua THEN ZeroRect ELSE d

\* the end of clutter_stage_paint: "priv->damaged_area.x = 0; ... .height
\* = 0;", whatever the pending damage d and update_area are
ResetDamagedArea(d, ua) == ZeroRect

\* variant: picking runs the end of the paint path and resets the damage
StagePickAsPaint(t) == [t EXCEPT !.damaged_area = ZeroRect]

\* clutter_stage_pick chains up to the group's paint and touches no field
\* of the stage; t holds damaged_area, damage_history and update_idle
StagePick(t) == t

\* ------------------------------------------------------------------------
\* Stage instances, their implementations and the stage manager
\* ------------------------------------------------------------------------

\* stage instances; the implementation the backend creates for stage s is
\* named s as well
StageIds == 1..MaxStages

\* clutter_stage_manager_get_default_stage followed by the test of
\* clutter_stage_get_default: the default stage, or a new instance
GetDefault(dflt, fresh) == IF dflt = 0 THEN fresh ELSE dflt

\* g_object_ref_sink on a new implementation
RefSink(refs, i) == [refs EXCEPT ![i] = 1]

\* g_object_unref: the last reference finalizes the object
Unref(refs, i) == [refs EXCEPT ![i] = IF @ > 0 THEN @ - 1 ELSE 0]

\* _clutter_stage_manager_add_stage: the stage is listed, and becomes the
\* default stage when there is none
StageManagerAdd(list, dflt, s) ==
  [stages |-> list \cup {s}, default |-> IF dflt = 0 THEN s ELSE dflt]

\* _clutter_stage_manager_remove_stage: the stage is no longer listed; the
\* default stages the manager may be left with when the default stage is
\* removed
StageManagerRemove(list, dflt, s) ==
  { [stages |-> list \ {s}, default |-> d] :
      d \in IF dflt = s THEN {0} \cup (list \ {s}) ELSE {dflt} }

\* ------------------------------------------------------------------------
\* Requests to the stage window
\* ------------------------------------------------------------------------

\* Each request gives the value of the flag after it, whether the hook of
\* the backend was called, and whether the property was notified.

\* variant: the request sets the flag when the backend takes it
FullscreenSetsFlag(fullscreen, hook) ==
  [value |-> fullscreen \/ hook, called |-> ~fullscreen /\ hook,
   notified |-> FALSE]

\* clutter_stage_fullscreen: the flag itself is set by clutter_stage_event
Fullscreen(fullscreen, hook) ==
  [value |-> fullscreen, called |-> ~fullscreen /\ hook, notified |-> FALSE]

\* clutter_stage_unfullscreen
Unfullscreen(fullscreen, hook) ==
  [value |-> fullscreen, called |-> fullscreen /\ hook, notified |-> FALSE]

\* clutter_stage_event: the value of is_fullscreen after the event, the
\* signal emitted for it and the value returned.  A CLUTTER_DELETE event
\* returns what the handlers of "event" return.
StageEvent(fullscreen, ev) ==
  IF ev.type = "delete"
  THEN [value |-> fullscreen, signal |-> "none", retval |-> ev.handled]
  ELSE IF ev.type /= "stage-state"
  THEN [value |-> fullscreen, signal |-> "none", retval |-> FALSE]
  ELSE IF ev.handled
  THEN [value |-> fullscreen, signal |-> "none", retval |-> TRUE]
  ELSE IF ev.changed
  THEN [value |-> ev.new,
        signal |-> IF ev.new THEN "fullscreen" ELSE "unfullscreen",
        retval |-> TRUE]
  ELSE [value |-> fullscreen, signal |-> "none", retval |-> TRUE]

\* clutter_stage_set_user_resizable
SetUserResizableUnchecked(resizable, feature, hook, value) ==
  IF resizable /= value
  THEN [value |-> value, called |-> hook, notified |-> TRUE]
  ELSE [value |-> resizable, called |-> FALSE, notified |-> FALSE]

SetUserResizable(resizable, feature, hook, value) ==
  IF feature /\ resizable /= value /\ hook
  THEN [value |-> value, called |-> TRUE, notified |-> TRUE]
  ELSE [value |-> resizable, called |-> FALSE, notified |-> FALSE]

\* clutter_stage_show_cursor
ShowCursor(visible, hook) ==
  IF ~visible /\ hook
  THEN [value |-> TRUE, called |-> TRUE, notified |-> TRUE]
  ELSE [value |-> visible, called |-> FALSE, notified |-> FALSE]

\* clutter_stage_hide_cursor
HideCursor(visible, hook) ==
  IF visible /\ hook
  THEN [value |-> FALSE, called |-> TRUE, notified |-> TRUE]
  ELSE [value |-> visible, called |-> FALSE, notified |-> FALSE]

\* ------------------------------------------------------------------------
\* ClutterTimeline (clutter-timeline.c)
\* ------------------------------------------------------------------------

\* variant: a timeout source is added whatever timeout_id is
TimelineStartAlways(id, srcs, busy) ==
  LET new == NewSourceId(busy) IN
  [timeout_id |-> new, sources |-> srcs \cup {new}]

\* clutter_timeline_start: "if (!priv->timeout_id) priv->timeout_id =
\*   g_timeout_add (...)"
TimelineStart(id, srcs, busy) ==
  IF id = 0
  THEN LET new == NewSourceId(busy) IN
       [timeout_id |-> new, sources |-> srcs \cup {new}]
  ELSE [timeout_id |-> id, sources |-> srcs]

\* clutter_timeline_pause and clutter_timeline_dispose: "if (timeout_id)
\*   g_source_remove (timeout_id); timeout_id = 0"
TimelinePause(id, srcs) == [timeout_id |-> 0, sources |-> srcs \ {id}]

\* clutter_timeline_set_speed: a timeline that is playing gets a new source
TimelineSetSpeed(id, srcs, busy) ==
  IF id /= 0
  THEN LET new == NewSourceId(busy \cup {id}) IN
       [timeout_id |-> new, sources |-> (srcs \ {id}) \cup {new}]
  ELSE [timeout_id |-> id, sources |-> srcs]

\* clutter_timeline_advance: "if (frame_num < priv->nframes)
\*   priv->current_frame_num = frame_num"
TimelineAdvance(current, total, frame_num) ==
  IF frame_num < total THEN frame_num ELSE current

\* variant: rewinding leaves the frame number
TimelineRewindStays(current, total) == current

\* clutter_timeline_rewind
TimelineRewind(current, total) == TimelineAdvance(current, total, 0)

\* clutter_timeline_skip
TimelineSkip(current, total, n) ==
  IF current + n > total THEN 1 ELSE current + n

\* timeline_timeout_func: the frames to advance by; elapsed is the whole
\* number of frame intervals since the last tick
TimelineFrames(last, elapsed) == IF last /= 0 THEN elapsed ELSE 1

\* ------------------------------------------------------------------------
\* The offscreen property
\* ------------------------------------------------------------------------

\* a gboolean is an int, TRUE 1 and FALSE 0
GBoolean(b) == IF b THEN 1 ELSE 0

\* the C operator ~ on an int
BitNot(x) == -x - 1

\* the value a "guint f : 1" field holds after x is assigned to it
Bit1(x) == x % 2

\* clutter_stage_set_property, PROP_OFFSCREEN: the new is_offscreen and
\* realized flag, and whether the stage was unrealized on the way; ok tells
\* whether the backend manages to realize the stage again
SetOffscreenKeepsValue(offscreen, real, value, ok) ==
  IF offscreen = GBoolean(value)
  THEN [is_offscreen |-> offscreen, realized |-> real, unrealized |-> FALSE]
  ELSE IF real
       THEN [is_offscreen |-> Bit1(GBoolean(value)),
             realized |-> ok, unrealized |-> TRUE]
       ELSE [is_offscreen |-> Bit1(GBoolean(value)),
             realized |-> FALSE, unrealized |-> FALSE]

SetOffscreen(offscreen, real, value, ok) ==
  IF offscreen = GBoolean(value)
  THEN [is_offscreen |-> offscreen, realized |-> real, unrealized |-> FALSE]
  ELSE IF real
       THEN [is_offscreen |-> IF ok THEN Bit1(GBoolean(value))
                              ELSE Bit1(BitNot(GBoolean(value))),
             realized |-> ok, unrealized |-> TRUE]
       ELSE [is_offscreen |-> Bit1(GBoolean(value)),
             realized |-> FALSE, unrealized |-> FALSE]

\* ------------------------------------------------------------------------
\* Reading pixels back
\* ------------------------------------------------------------------------

\* "if (width < 0 || width > stage_width) width = stage_width;"
ClampToStage(v, dim) == IF v < 0 \/ v > dim THEN dim ELSE v

\* "y = stage_height - 1 - y - height;"
ReadOrigin(y, height, stage_height) == stage_height - 1 - y - height

\* glReadPixels (x, gl_y, width, height, ...): buffer row j holds the row
\* gl_y + j - 1 of the viewport, counted from the bottom; it is named here
\* by its number counted from the top of the stage.  A number outside
\* 0 .. stage_height - 1 is a row outside the viewport, whose pixels are
\* undefined.
GLReadRows(gl_y, height, stage_height) ==
  [j \in 1..height |-> stage_height - 1 - (gl_y + j - 1)]

\* the rows with rows y and height - y - 1 (from 0) exchanged
SwapRows(rows, y) ==
  [j \in 1..Len(rows) |->
     IF j = y + 1 THEN rows[Len(rows) - y]
     ELSE IF j = Len(rows) - y THEN rows[y + 1]
     ELSE rows[j]]

\* "for (y = 0; y < height / 2; y++)": the buffer is flipped in place
RECURSIVE FlipRows(_, _)
FlipRows(rows, y) ==
  IF y < Len(rows) \div 2
  THEN FlipRows(IF y /= Len(rows) - y - 1 THEN SwapRows(rows, y) ELSE rows,
                y + 1)
  ELSE rows

\* clutter_stage_read_pixels after the forced redraw: the rectangle handed
\* to glReadPixels and the rows of the buffer returned, first to last
ReadPixels(x, y, width, height, stage_width, stage_height) ==
  IF ~(x >= 0 /\ y >= 0)
  THEN [ok |-> FALSE, x |-> 0, y |-> 0, width |-> 0, height |-> 0,
        rows |-> <<>>]
  ELSE LET w == ClampToStage(width, stage_width)
           h == ClampToStage(height, stage_height)
           gl_y == ReadOrigin(y, h, stage_height)
       IN [ok |-> TRUE, x |-> x, y |-> gl_y, width |-> w, height |-> h,
           rows |-> FlipRows(GLReadRows(gl_y, h, stage_height), 0)]

\* ------------------------------------------------------------------------
\* Key focus
\* ------------------------------------------------------------------------

\* clutter_stage_set_key_focus (stage, actor), actor 0 for NULL: the new
\* priv->key_focused_actor and weak references, and who receives focus-out
\* and focus-in (0 the stage, -1 nobody)
SetKeyFocus(focused, weak, actor) ==
  IF focused = actor
  THEN [key_focused_actor |-> focused, weak_refs |-> weak,
        out |-> -1, in |-> -1]
  ELSE [key_focused_actor |-> actor,
        weak_refs |-> (weak \ {focused}) \cup ({actor} \ {0}),
        out |-> focused, in |-> actor]

\* on_key_focused_weak_notify: "priv->key_focused_actor = NULL;
\*   clutter_stage_set_key_focus (stage, NULL);"
KeyFocusedWeakNotify(weak, gone) == SetKeyFocus(0, weak \ {gone}, 0)

\* clutter_stage_get_key_focus: the actor, or the stage
GetKeyFocus(focused) == focused

\* ------------------------------------------------------------------------
\* State
\* ------------------------------------------------------------------------
VARIABLES
  damaged_area,        \* priv->damaged_area
  damage_history,      \* priv->damage_history, most recent first
  update_idle,         \* priv->update_idle: repaint source id, 0 if none
  shaped_mode,         \* priv->shaped_mode
  realized,            \* CLUTTER_ACTOR_REALIZED
  in_paint,            \* CLUTTER_ACTOR_IN_PAINT
  in_destruction,      \* CLUTTER_ACTOR_IN_DESTRUCTION
  disposed,            \* clutter_stage_dispose has run
  buffer_age_feature,  \* clutter_feature_available (CLUTTER_FEATURE_BUFFER_AGE)
  impl,                \* priv->impl != NULL
  clip_depth,          \* cogl: clips set and not yet unset
  sources,             \* main loop: attached sources that call redraw_update_idle
  dispatching,         \* main loop: source whose callback is running, 0 if none
  observe,             \* which history variables are recorded (fixed by Init)
  frame,               \* history: the frame being painted
  marks,               \* history: clipped areas marked since the frame started
  frame_clean,         \* history: only positive-size areas were marked since then
  call,                \* history: the last clutter_stage_set_damaged_area call
  redraw_queued,       \* history: clutter_stage_queue_redraw was accepted for the next frame
  requests,            \* history: redraw requests made since the callback last ran
  served,              \* history: what the last callback run did
  owed,                \* history: what became of the last redraw request
  disposal,            \* history: what clutter_stage_dispose found
  completed,           \* history: the last frame whose paint returned
  picked,              \* history: the last operation was a pick
  stage_list,          \* stage manager: the stages it lists
  default_stage,       \* stage manager: the default stage, 0 if none
  stage_impl,          \* priv->impl of every stage instance, 0 for NULL
  impl_refs,           \* reference count of every stage implementation
  building,            \* stack of the g_object_new (CLUTTER_TYPE_STAGE) calls in progress
  next_stage,          \* the next instance g_object_new allocates
  crashed,             \* "no", or how the process died: "assert", "stack"
  feature_stage_multiple, \* clutter_feature_available (CLUTTER_FEATURE_STAGE_MULTIPLE)
  default_returns,     \* history: the instances clutter_stage_get_default returned
  disposed_stages,     \* history: the instances that were disposed
  unref_freed,         \* history: a freed implementation was unreferenced
  is_fullscreen,       \* priv->is_fullscreen
  is_cursor_visible,   \* priv->is_cursor_visible
  is_user_resizable,   \* priv->is_user_resizable
  iface,               \* ClutterStageWindowIface: which hooks the backend implements
  feature_user_resize, \* clutter_feature_available (CLUTTER_FEATURE_STAGE_USER_RESIZE)
  asked,               \* history: the last request made to the stage window
  delivered,           \* history: the last event given to clutter_stage_event
  timeout_id,          \* timeline priv->timeout_id
  fps,                 \* timeline priv->fps
  nframes,             \* timeline priv->nframes, the property num-frames
  current_frame_num,   \* timeline priv->current_frame_num
  last_frame_msecs,    \* timeline priv->last_frame_msecs: 0, or 1 for any later time
  loop,                \* timeline priv->loop
  timeline_sources,    \* main loop: attached sources that call timeline_timeout_func
  ticking,             \* main loop: the source whose timeline_timeout_func runs, 0 if none
  tick_pc,             \* where timeline_timeout_func is: "idle", or the signal it emits
  tl_call,             \* history: the last call made on the timeline
  paused,              \* history: the last clutter_timeline_pause and the frame it found
  emitted,             \* history: the signals the timeline emitted
  key_focused_actor,   \* priv->key_focused_actor, 0 for NULL
  weak_refs,           \* the actors on which the stage holds a weak reference
  dead_actors,         \* the actors that were finalized
  focus_change,        \* history: the last operation on the key focus
  is_offscreen,        \* priv->is_offscreen, a 1-bit field: 0 or 1
  offscreen_set,       \* history: the last set of the offscreen property
  pixels_read          \* history: the last call of clutter_stage_read_pixels

stageVars == <<damaged_area, damage_history, update_idle, shaped_mode>>
flagVars  == <<realized, in_paint, in_destruction, disposed, buffer_age_feature>>
cogVars   == <<impl, clip_depth>>
loopVars  == <<sources, dispatching>>
histVars  == <<observe, frame, marks, frame_clean, call, redraw_queued, requests, served>>
lifeVars  == <<owed, disposal, completed>>
oneVars   == <<stageVars, flagVars, cogVars, loopVars, histVars, lifeVars, picked>>
managerVars == <<stage_list, default_stage, stage_impl, impl_refs, building,
                 next_stage, crashed, feature_stage_multiple, default_returns,
                 disposed_stages, unref_freed>>
windowVars == <<is_fullscreen, is_cursor_visible, is_user_resizable, iface,
                feature_user_resize, asked, delivered>>
timelineVars == <<timeout_id, fps, nframes, current_frame_num,
                  last_frame_msecs, loop, timeline_sources, ticking, tick_pc>>
timelineHist == <<tl_call, paused, emitted>>
focusVars == <<key_focused_actor, weak_refs, dead_actors, focus_change>>
offscreenVars == <<is_offscreen, offscreen_set>>
restVars  == <<focusVars, offscreenVars, pixels_read>>
farVars   == <<managerVars, windowVars, timelineVars, timelineHist, restVars>>
vars      == <<oneVars, farVars>>

NoFrame ==
  [active |-> FALSE, age |-> 0, pending |-> ZeroRect, prior |-> <<>>,
   resolved |-> ZeroRect, update_area |-> FALSE, clip |-> FALSE,
   clear |-> FALSE, idle_at_redraw |-> 0, queued |-> FALSE]

NoCall == [made |-> FALSE, area |-> ZeroRect, before |-> ZeroRect]

NoneServed == [ran |-> FALSE, requests |-> 0, redraws |-> 0, shaped |-> FALSE]

NoDisposal == [ran |-> FALSE, idle |-> 0, realized |-> FALSE, entries |-> 0]

NoneCompleted ==
  [done |-> FALSE, pending |-> ZeroRect, update_area |-> FALSE,
   dirty |-> FALSE]

\* ------------------------------------------------------------------------
\* Inputs
\* ------------------------------------------------------------------------

\* ages _clutter_backend_buffer_age may report
Ages == 0..MaxAge

\* ages reported where the scheduler is examined
SchedAges == {0, 1}

\* every rectangle with coordinates around the stage (used where one call is
\* examined)
AllAreas ==
  { Geometry(ax, ay, aw, ah) :
      ax \in -2..(StageWidth + 1), ay \in -2..(StageHeight + 1),
      aw \in -1..(StageWidth + 2), ah \in -1..(StageHeight + 2) }

\* areas marked between frames: two unit cells on the diagonal, one of them
\* also as the visible part of a rectangle hanging over the corner, the
\* whole stage and more, rectangles off the stage, and invalid ones
Areas ==
  { Geometry(0, 0, 1, 1),
    Geometry(-1, -1, 2, 2),
    Geometry(1, 1, 1, 1),
    Geometry(0, 0, StageWidth, StageHeight),
    Geometry(-1, -1, StageWidth + 2, StageHeight + 2),
    Geometry(StageWidth, 0, 1, 1),
    Geometry(0, StageHeight + 1, 1, 1),
    Geometry(-2, 0, 1, 1),
    Geometry(0, 0, 0, 1),
    Geometry(1, 1, 1, -1) }

\* areas marked where the scheduler is examined
SchedAreas == { Geometry(0, 0, 1, 1) }

\* ages reported and areas marked where whole paints are examined: two unit
\* cells on the diagonal and an invalid rectangle
PaintAges == {0, 1}

\* the length the history is said to be bounded by, and ages up to one
\* more than that
HistoryBound == MAX_BUFFER_AGE + 2

HistoryAges == 0..(HistoryBound + 1)

PaintAreas ==
  { Geometry(0, 0, 1, 1),
    Geometry(1, 1, 1, 1),
    Geometry(0, 0, 0, 1) }

\* ------------------------------------------------------------------------
\* Specification helpers (not code): exact clipping and bounding box
\* ------------------------------------------------------------------------
Min(a, b) == IF a < b THEN a ELSE b
Max(a, b) == IF a > b THEN a ELSE b

\* intersection of r with the stage
OnStage(r) ==
  LET x1 == Max(r.x, 0)
      y1 == Max(r.y, 0)
      x2 == Min(r.x + r.width, StageWidth)
      y2 == Min(r.y + r.height, StageHeight)
  IN Geometry(x1, y1, x2 - x1, y2 - y1)

Contains(outer, inner) ==
  /\ outer.x <= inner.x
  /\ outer.y <= inner.y
  /\ inner.x + inner.width <= outer.x + outer.width
  /\ inner.y + inner.height <= outer.y + outer.height

SetMin(S) == CHOOSE m \in S : \A n \in S : m <= n
SetMax(S) == CHOOSE m \in S : \A n \in S : m >= n

\* smallest rectangle enclosing every rectangle of the non-empty set S
BoundingBox(S) ==
  LET x1 == SetMin({r.x : r \in S})
      y1 == SetMin({r.y : r \in S})
      x2 == SetMax({r.x + r.width : r \in S})
      y2 == SetMax({r.y + r.height : r \in S})
  IN Geometry(x1, y1, x2 - x1, y2 - y1)

\* the region a frame draws: everything, or the clip rectangle
Drawn(f) == IF f.update_area THEN f.resolved ELSE StageGeometry

\* ------------------------------------------------------------------------
\* Initial state: clutter_stage_init
\* ------------------------------------------------------------------------
InitOne ==
  /\ damage_history = IF buffer_age_feature THEN <<>> ELSE <<ZeroRect>>
  /\ update_idle = 0
  /\ shaped_mode = 0
  /\ realized = FALSE
  /\ in_paint = FALSE
  /\ in_destruction = FALSE
  /\ disposed = FALSE
  /\ sources = {}
  /\ dispatching = 0
  /\ frame = NoFrame
  /\ marks = {}
  /\ frame_clean = (observe = "frame")
  /\ call = NoCall
  /\ redraw_queued = FALSE
  /\ requests = 0
  /\ served = NoneServed
  /\ impl = TRUE
  /\ clip_depth = 0
  /\ owed = "none"
  /\ disposal = NoDisposal
  /\ completed = NoneCompleted
  /\ picked = FALSE

\* no stage instance exists: the stage manager is empty
InitManager ==
  /\ stage_list = {}
  /\ default_stage = 0
  /\ stage_impl = [s \in StageIds |-> 0]
  /\ impl_refs = [i \in StageIds |-> 0]
  /\ building = <<>>
  /\ next_stage = 1
  /\ crashed = "no"
  /\ default_returns = {}
  /\ disposed_stages = {}
  /\ unref_freed = FALSE

NoRequest ==
  [made |-> FALSE, op |-> "none", supported |-> FALSE, changes |-> FALSE,
   before |-> <<FALSE, FALSE, FALSE>>, called |-> FALSE, notified |-> FALSE]

NoEvent ==
  [made |-> FALSE, type |-> "none", changed |-> FALSE, new |-> FALSE,
   handled |-> FALSE, before |-> FALSE, signal |-> "none", retval |-> FALSE]

\* the flags of a new stage
InitWindow ==
  /\ is_fullscreen = FALSE
  /\ is_user_resizable = FALSE
  /\ is_cursor_visible = TRUE
  /\ asked = NoRequest
  /\ delivered = NoEvent

\* the events given to clutter_stage_event
Events ==
  [type : {"delete", "stage-state", "key-press"}, changed : BOOLEAN,
   new : BOOLEAN, handled : BOOLEAN]

Hooks == [set_fullscreen : BOOLEAN, set_cursor_visible : BOOLEAN,
          set_user_resizable : BOOLEAN]

AllHooks == [set_fullscreen |-> TRUE, set_cursor_visible |-> TRUE,
             set_user_resizable |-> TRUE]

\* the key focus: 0 stands for the stage, which holds the focus when
\* priv->key_focused_actor is NULL; -1 stands for no signal
NoFocusChange ==
  [made |-> FALSE, op |-> "none", from |-> 0, out |-> -1, in |-> -1]

InitFocus ==
  /\ key_focused_actor = 0
  /\ weak_refs = {}
  /\ dead_actors = {}
  /\ focus_change = NoFocusChange

NoOffscreenSet ==
  [made |-> FALSE, value |-> FALSE, before |-> 0, was_realized |-> FALSE,
   ok |-> FALSE, unrealized |-> FALSE]

InitOffscreen ==
  /\ is_offscreen = 0
  /\ offscreen_set = NoOffscreenSet

NoPixelsRead ==
  [made |-> FALSE, x |-> 0, y |-> 0, width |-> 0, height |-> 0,
   read |-> [ok |-> FALSE, x |-> 0, y |-> 0, width |-> 0, height |-> 0,
             rows |-> <<>>]]

InitRest == InitFocus /\ InitOffscreen /\ pixels_read = NoPixelsRead

NoTimelineCall == [op |-> "none", arg |-> 0]

NotPaused == [made |-> FALSE, frame |-> 0]

NoneEmitted == [last |-> -1, ordered |-> TRUE, completed |-> 0, late |-> FALSE]

\* a timeline as clutter_timeline_new leaves it, but for num-frames
InitTimeline ==
  /\ timeout_id = 0
  /\ fps = 50
  /\ current_frame_num = 0
  /\ last_frame_msecs = 0
  /\ loop = FALSE
  /\ timeline_sources = {}
  /\ ticking = 0
  /\ tick_pc = "idle"
  /\ tl_call = NoTimelineCall
  /\ paused = NotPaused
  /\ emitted = NoneEmitted

InitFar ==
  /\ feature_stage_multiple = TRUE
  /\ InitManager
  /\ iface = AllHooks
  /\ feature_user_resize = TRUE
  /\ InitWindow
  /\ nframes = 0
  /\ InitTimeline
  /\ InitRest

InitStage ==
  /\ buffer_age_feature \in BOOLEAN
  /\ InitOne
  /\ InitFar

Init ==
  /\ observe \in {"call", "frame", "sched", "live", "paint", "ages"}
  /\ damaged_area = ZeroRect
  /\ InitStage

InitDamage == observe = "frame" /\ damaged_area = ZeroRect /\ InitStage
InitSched  == observe = "sched" /\ damaged_area = ZeroRect /\ InitStage
InitLive   == observe = "live" /\ damaged_area = ZeroRect /\ InitStage
InitPaint  == observe = "paint" /\ damaged_area = ZeroRect /\ InitStage
InitAges   == observe = "ages" /\ damaged_area = ZeroRect /\ InitStage

\* the values priv->damaged_area takes: invalid, or a rectangle on the stage
Pendings ==
  {ZeroRect} \cup
  { Geometry(px, py, pw, ph) :
      px \in 0..(StageWidth - 1), py \in 0..(StageHeight - 1),
      pw \in 1..StageWidth, ph \in 1..StageHeight }

\* a stage with any pending damage, for the examination of single calls
InitArea ==
  /\ observe = "call"
  /\ damaged_area \in { d \in Pendings : Contains(StageGeometry, d) }
  /\ InitStage

\* ------------------------------------------------------------------------
\* Operations
\* ------------------------------------------------------------------------

\* source ids in use
Busy == sources \cup ({dispatching} \ {0})

\* clutter_stage_realize: the backend may fail to realize the implementation
clutter_stage_realize ==
  /\ ~realized
  /\ ~disposed
  /\ \E ok \in BOOLEAN : realized' = ok
  /\ call' = NoCall
  /\ picked' = FALSE
  /\ UNCHANGED <<stageVars, in_paint, in_destruction, disposed,
                 buffer_age_feature, cogVars, loopVars, observe, frame, marks,
                 frame_clean, redraw_queued, requests, served, lifeVars>>
  /\ UNCHANGED farVars

clutter_stage_set_shaped_mode(mode) ==
  /\ shaped_mode' = mode
  /\ call' = NoCall
  /\ picked' = FALSE
  /\ UNCHANGED <<damaged_area, damage_history, update_idle, flagVars, cogVars,
                 loopVars, observe, frame, marks, frame_clean, redraw_queued,
                 requests, served, lifeVars>>
  /\ UNCHANGED farVars

clutter_stage_set_damaged_area(area) ==
  /\ damaged_area' = SetDamagedArea(damaged_area, area)
  /\ marks' = IF frame_clean /\ IsValid(area)
              THEN IF IsValid(OnStage(area))
                   THEN marks \cup {OnStage(area)}
                   ELSE marks
              ELSE {}
  /\ frame_clean' = (frame_clean /\ IsValid(area))
  /\ call' = IF observe = "call"
             THEN [made |-> TRUE, area |-> area, before |-> damaged_area]
             ELSE NoCall
  /\ picked' = FALSE
  /\ UNCHANGED <<damage_history, update_idle, shaped_mode, flagVars, cogVars,
                 loopVars, observe, frame, redraw_queued, requests, served,
                 lifeVars>>
  /\ UNCHANGED farVars

clutter_stage_queue_redraw ==
  LET q == AddRedrawSource(update_idle, sources, Busy) IN
  /\ damaged_area' = IF in_destruction THEN damaged_area ELSE StageGeometry
  /\ update_idle' = IF in_destruction THEN update_idle ELSE q.update_idle
  /\ sources' = IF in_destruction THEN sources ELSE q.sources
  /\ marks' = IF in_destruction THEN marks ELSE {}
  /\ frame_clean' = (frame_clean /\ in_destruction)
  /\ redraw_queued' = IF in_destruction \/ observe /= "frame"
                      THEN redraw_queued
                      ELSE TRUE
  /\ requests' = IF observe /= "sched"
                 THEN requests
                 ELSE Min(requests + 1, MaxRequests)
  /\ owed' = IF observe = "live" /\ ~in_destruction /\ ~disposed
             THEN "requested"
             ELSE owed
  /\ call' = NoCall
  /\ picked' = FALSE
  /\ UNCHANGED <<damage_history, shaped_mode, flagVars, cogVars, dispatching,
                 observe, frame, served, disposal, completed>>
  /\ UNCHANGED farVars

clutter_stage_queue_redraw_damage ==
  LET q == AddRedrawSource(update_idle, sources, Busy) IN
  /\ update_idle' = q.update_idle
  /\ sources' = q.sources
  /\ requests' = IF observe /= "sched"
                 THEN requests
                 ELSE Min(requests + 1, MaxRequests)
  /\ owed' = IF observe = "live" /\ ~in_destruction /\ ~disposed
             THEN "requested"
             ELSE owed
  /\ call' = NoCall
  /\ picked' = FALSE
  /\ UNCHANGED <<damaged_area, damage_history, shaped_mode, flagVars, cogVars,
                 dispatching, observe, frame, marks, frame_clean,
                 redraw_queued, served, disposal, completed>>
  /\ UNCHANGED farVars

\* clutter_stage_paint up to the point where the children are painted:
\* the damage is resolved against the history, the clip is set and the
\* buffer is cleared
PaintResolve(damaged, history, age) ==
  IF buffer_age_feature
  THEN ResolveBufferAge(damaged, history, age)
  ELSE ResolveDoubleBuffer(damaged, history)

\* The main loop runs the callback of source s.  clutter_redraw paints the
\* stage when it is realized; painting an unrealized stage is a no-op.  The
\* action ends where clutter_stage_paint paints the children, or, when
\* nothing is painted, where the callback returns FALSE and the main loop
\* destroys the source.
redraw_update_idle(s, age) ==
  /\ s \in sources
  /\ dispatching = 0
  /\ LET r == RemoveRedrawSource(update_idle, sources) IN
     /\ update_idle' = r.update_idle
     /\ served' = IF observe = "sched"
                  THEN [ran |-> TRUE, requests |-> requests,
                        redraws |-> RedrawInvocations(shaped_mode),
                        shaped |-> shaped_mode /= 0]
                  ELSE served
     /\ requests' = 0
     /\ owed' = IF owed /= "requested"
                THEN owed
                ELSE IF RedrawInvocations(shaped_mode) > 0
                     THEN "rendered"
                     ELSE "dropped"
     /\ IF RedrawInvocations(shaped_mode) > 0 /\ realized
        THEN \E res \in {PaintResolve(damaged_area, damage_history, age)} :
             \E ua \in {UpdateArea(res.damaged_area)} :
             /\ in_paint' = TRUE
             /\ clip_depth' = ClipSet(clip_depth, ua)
             /\ dispatching' = s
             /\ sources' = r.sources
             /\ damaged_area' = res.damaged_area
             /\ damage_history' = res.damage_history
             /\ frame' = [active |-> TRUE,
                          age |-> IF buffer_age_feature THEN age ELSE 0,
                          pending |-> damaged_area,
                          prior |-> damage_history,
                          resolved |-> res.damaged_area,
                          update_area |-> ua,
                          clip |-> ua,
                          clear |-> PaintInitClears(ua),
                          idle_at_redraw |-> r.update_idle,
                          queued |-> redraw_queued]
             /\ marks' = {}
             /\ frame_clean' = FALSE
             /\ redraw_queued' = FALSE
        ELSE /\ sources' = r.sources \ {s}
             /\ UNCHANGED <<in_paint, clip_depth, dispatching, damaged_area,
                            damage_history, frame, marks, frame_clean,
                            redraw_queued>>
  /\ call' = NoCall
  /\ picked' = FALSE
  /\ UNCHANGED <<shaped_mode, realized, in_destruction, disposed,
                 buffer_age_feature, impl, observe, disposal, completed>>
  /\ UNCHANGED farVars

\* the rest of clutter_stage_paint (the clip is unset, the pending damage
\* is reset) and the return of the callback: the main loop destroys the
\* source that was dispatched
clutter_stage_paint_return ==
  /\ in_paint
  /\ in_paint' = FALSE
  /\ clip_depth' = ClipUnset(clip_depth, frame.update_area)
  /\ damaged_area' = ResetDamagedArea(damaged_area, frame.update_area)
  /\ sources' = sources \ {dispatching}
  /\ dispatching' = 0
  /\ frame' = NoFrame
  /\ marks' = {}
  /\ frame_clean' = (observe = "frame")
  /\ completed' = IF observe = "paint"
                  THEN [done |-> TRUE, pending |-> frame.pending,
                        update_area |-> frame.update_area,
                        dirty |-> IsValid(damaged_area)]
                  ELSE completed
  /\ call' = NoCall
  /\ picked' = FALSE
  /\ UNCHANGED <<damage_history, update_idle, shaped_mode, realized,
                 in_destruction, disposed, buffer_age_feature, impl, observe,
                 redraw_queued, requests, served, owed, disposal>>
  /\ UNCHANGED farVars

\* clutter_actor_destroy marks the actor as being destroyed
clutter_actor_destroy ==
  /\ ~in_destruction
  /\ in_destruction' = TRUE
  /\ call' = NoCall
  /\ picked' = FALSE
  /\ UNCHANGED <<stageVars, realized, in_paint, disposed, buffer_age_feature,
                 cogVars, loopVars, observe, frame, marks, frame_clean,
                 redraw_queued, requests, served, lifeVars>>
  /\ UNCHANGED farVars

clutter_stage_dispose ==
  /\ ~disposed
  /\ dispatching = 0
  /\ LET r == RemoveRedrawSource(update_idle, sources) IN
     /\ update_idle' = r.update_idle
     /\ sources' = r.sources
  /\ realized' = FALSE
  /\ impl' = FALSE
  /\ damage_history' = <<>>
  /\ disposed' = TRUE
  /\ requests' = 0
  /\ disposal' = IF observe = "live"
                 THEN [ran |-> TRUE, idle |-> update_idle,
                       realized |-> realized,
                       entries |-> Len(damage_history)]
                 ELSE disposal
  /\ call' = NoCall
  /\ picked' = FALSE
  /\ UNCHANGED <<damaged_area, shaped_mode, in_paint, in_destruction,
                 buffer_age_feature, clip_depth, dispatching, observe, frame,
                 marks, frame_clean, redraw_queued, served, owed, completed>>
  /\ UNCHANGED farVars

\* clutter_stage_pick, called by _clutter_do_pick between frames
clutter_stage_pick ==
  LET t == StagePick([damaged_area |-> damaged_area,
                      damage_history |-> damage_history,
                      update_idle |-> update_idle])
  IN
  /\ dispatching = 0
  /\ damaged_area' = t.damaged_area
  /\ damage_history' = t.damage_history
  /\ update_idle' = t.update_idle
  /\ picked' = TRUE
  /\ call' = NoCall
  /\ UNCHANGED <<shaped_mode, flagVars, cogVars, loopVars, observe, frame,
                 marks, frame_clean, redraw_queued, requests, served, lifeVars>>
  /\ UNCHANGED farVars

\* ------------------------------------------------------------------------
\* Operations on stage instances: construction, the default stage, dispose
\* ------------------------------------------------------------------------

\* the process has neither aborted nor exhausted its stack
Alive == crashed = "no"

\* g_object_new (CLUTTER_TYPE_STAGE, NULL): a new instance, whose
\* clutter_stage_init runs next; caller is who asked for it
NewFrame(caller) == [stage |-> next_stage, phase |-> "init", caller |-> caller]

Top == building[Len(building)]

SetTop(stack, f) == [stack EXCEPT ![Len(stack)] = f]

\* clutter_stage_new, called by the application
clutter_stage_new ==
  /\ Alive
  /\ building = <<>>
  /\ feature_stage_multiple
  /\ next_stage + MaxNesting - 1 <= MaxStages
  /\ building' = <<NewFrame("new")>>
  /\ next_stage' = next_stage + 1
  /\ UNCHANGED <<stage_list, default_stage, stage_impl, impl_refs, crashed,
                 feature_stage_multiple, default_returns, disposed_stages,
                 unref_freed>>
  /\ UNCHANGED <<oneVars, windowVars, timelineVars, timelineHist, restVars>>

\* clutter_stage_get_default, called by the application: the default stage
\* is returned, or its construction starts and it is returned when
\* g_object_new returns
clutter_stage_get_default ==
  /\ Alive
  /\ building = <<>>
  /\ LET stage == GetDefault(default_stage, next_stage) IN
     IF stage = next_stage
     THEN /\ next_stage + MaxNesting - 1 <= MaxStages
          /\ building' = <<NewFrame("default")>>
          /\ next_stage' = next_stage + 1
          /\ UNCHANGED default_returns
     ELSE /\ default_returns' = default_returns \cup {stage}
          /\ UNCHANGED <<building, next_stage>>
  /\ UNCHANGED <<stage_list, default_stage, stage_impl, impl_refs, crashed,
                 feature_stage_multiple, disposed_stages, unref_freed>>
  /\ UNCHANGED <<oneVars, windowVars, timelineVars, timelineHist, restVars>>

\* clutter_stage_init of the instance on top of the stack.  created says
\* whether _clutter_backend_create_stage returned an implementation.
\* When it did not, _clutter_stage_get_default_window calls
\* clutter_stage_get_default, which constructs a stage when the manager has
\* no default stage: a nested g_object_new, whose clutter_stage_init runs
\* before this one continues.
clutter_stage_init(created) ==
  /\ Alive
  /\ building /= <<>>
  /\ Top.phase = "init"
  /\ LET self == Top.stage
         stage == GetDefault(default_stage, next_stage)
     IN
     IF created
     THEN /\ stage_impl' = [stage_impl EXCEPT ![self] = self]
          /\ impl_refs' = RefSink(impl_refs, self)
          /\ building' = SetTop(building, [Top EXCEPT !.phase = "done"])
          /\ UNCHANGED <<next_stage, crashed>>
     ELSE IF stage /= next_stage
          THEN IF stage_impl[stage] /= 0
               THEN /\ stage_impl' = [stage_impl EXCEPT ![self] = stage_impl[stage]]
                    /\ building' = SetTop(building, [Top EXCEPT !.phase = "done"])
                    /\ UNCHANGED <<impl_refs, next_stage, crashed>>
               ELSE /\ crashed' = "assert"
                    /\ UNCHANGED <<stage_impl, impl_refs, building, next_stage>>
          ELSE IF Len(building) < MaxNesting
               THEN /\ building' = Append(SetTop(building, [Top EXCEPT !.phase = "wait"]),
                                          NewFrame("window"))
                    /\ next_stage' = next_stage + 1
                    /\ UNCHANGED <<stage_impl, impl_refs, crashed>>
               ELSE /\ crashed' = "stack"
                    /\ UNCHANGED <<stage_impl, impl_refs, building, next_stage>>
  /\ UNCHANGED <<stage_list, default_stage, feature_stage_multiple,
                 default_returns, disposed_stages, unref_freed>>
  /\ UNCHANGED <<oneVars, windowVars, timelineVars, timelineHist, restVars>>

\* g_object_new returns the instance on top of the stack: the stage is
\* added to the stage manager.  clutter_stage_get_default returns it to the
\* application, or to the clutter_stage_init that waits for the default
\* stage's implementation.
clutter_stage_constructed ==
  /\ Alive
  /\ building /= <<>>
  /\ Top.phase = "done"
  /\ LET self == Top.stage
         m == StageManagerAdd(stage_list, default_stage, self)
         rest == SubSeq(building, 1, Len(building) - 1)
     IN
     /\ stage_list' = m.stages
     /\ default_stage' = m.default
     /\ default_returns' = IF Top.caller = "default"
                           THEN default_returns \cup {self}
                           ELSE default_returns
     /\ IF Top.caller = "window"
        THEN /\ stage_impl' = [stage_impl EXCEPT
                                 ![rest[Len(rest)].stage] = stage_impl[self]]
             /\ building' = SetTop(rest, [rest[Len(rest)] EXCEPT !.phase = "done"])
        ELSE /\ building' = rest
             /\ UNCHANGED stage_impl
  /\ UNCHANGED <<impl_refs, next_stage, crashed, feature_stage_multiple,
                 disposed_stages, unref_freed>>
  /\ UNCHANGED <<oneVars, windowVars, timelineVars, timelineHist, restVars>>

\* the stage instances that were constructed and not disposed
LiveStages == { s \in StageIds : s < next_stage } \
              ({ building[i].stage : i \in 1..Len(building) } \cup disposed_stages)

\* clutter_stage_dispose of stage instance s: the stage leaves the stage
\* manager and drops a reference on its implementation
clutter_stage_dispose_impl(s) ==
  /\ Alive
  /\ building = <<>>
  /\ s \in LiveStages
  /\ \E m \in StageManagerRemove(stage_list, default_stage, s) :
       /\ stage_list' = m.stages
       /\ default_stage' = m.default
  /\ IF stage_impl[s] /= 0
     THEN /\ impl_refs' = Unref(impl_refs, stage_impl[s])
          /\ unref_freed' = (unref_freed \/ impl_refs[stage_impl[s]] = 0)
          /\ stage_impl' = [stage_impl EXCEPT ![s] = 0]
     ELSE UNCHANGED <<impl_refs, unref_freed, stage_impl>>
  /\ disposed_stages' = disposed_stages \cup {s}
  /\ UNCHANGED <<building, next_stage, crashed, feature_stage_multiple,
                 default_returns>>
  /\ UNCHANGED <<oneVars, windowVars, timelineVars, timelineHist, restVars>>

\* ------------------------------------------------------------------------
\* Operations on the stage window: fullscreen, cursor, user resize
\* ------------------------------------------------------------------------

StageFlags == <<is_fullscreen, is_cursor_visible, is_user_resizable>>

\* the history of a request: op, whether the backend supports it, whether
\* it asks for a change, the flags before it and what it did
Request(op, supported, changes, r) ==
  [made |-> TRUE, op |-> op, supported |-> supported, changes |-> changes,
   before |-> StageFlags, called |-> r.called, notified |-> r.notified]

clutter_stage_fullscreen ==
  /\ \E r \in {Fullscreen(is_fullscreen, iface.set_fullscreen)} :
       /\ is_fullscreen' = r.value
       /\ asked' = Request("fullscreen", iface.set_fullscreen,
                           ~is_fullscreen, r)
  /\ delivered' = NoEvent
  /\ UNCHANGED <<is_cursor_visible, is_user_resizable, iface,
                 feature_user_resize>>
  /\ UNCHANGED <<oneVars, managerVars, timelineVars, timelineHist, restVars>>

clutter_stage_unfullscreen ==
  /\ \E r \in {Unfullscreen(is_fullscreen, iface.set_fullscreen)} :
       /\ is_fullscreen' = r.value
       /\ asked' = Request("unfullscreen", iface.set_fullscreen,
                           is_fullscreen, r)
  /\ delivered' = NoEvent
  /\ UNCHANGED <<is_cursor_visible, is_user_resizable, iface,
                 feature_user_resize>>
  /\ UNCHANGED <<oneVars, managerVars, timelineVars, timelineHist, restVars>>

clutter_stage_set_user_resizable(resizable) ==
  /\ \E r \in {SetUserResizable(is_user_resizable, feature_user_resize,
                                iface.set_user_resizable, resizable)} :
       /\ is_user_resizable' = r.value
       /\ asked' = Request("set_user_resizable",
                           feature_user_resize /\ iface.set_user_resizable,
                           is_user_resizable /= resizable, r)
  /\ delivered' = NoEvent
  /\ UNCHANGED <<is_fullscreen, is_cursor_visible, iface,
                 feature_user_resize>>
  /\ UNCHANGED <<oneVars, managerVars, timelineVars, timelineHist, restVars>>

clutter_stage_show_cursor ==
  /\ \E r \in {ShowCursor(is_cursor_visible, iface.set_cursor_visible)} :
       /\ is_cursor_visible' = r.value
       /\ asked' = Request("show_cursor", iface.set_cursor_visible,
                           ~is_cursor_visible, r)
  /\ delivered' = NoEvent
  /\ UNCHANGED <<is_fullscreen, is_user_resizable, iface,
                 feature_user_resize>>
  /\ UNCHANGED <<oneVars, managerVars, timelineVars, timelineHist, restVars>>

clutter_stage_hide_cursor ==
  /\ \E r \in {HideCursor(is_cursor_visible, iface.set_cursor_visible)} :
       /\ is_cursor_visible' = r.value
       /\ asked' = Request("hide_cursor", iface.set_cursor_visible,
                           is_cursor_visible, r)
  /\ delivered' = NoEvent
  /\ UNCHANGED <<is_fullscreen, is_user_resizable, iface,
                 feature_user_resize>>
  /\ UNCHANGED <<oneVars, managerVars, timelineVars, timelineHist, restVars>>

\* clutter_stage_event is given event ev: its type, whether its
\* changed_mask and its new_state have CLUTTER_STAGE_STATE_FULLSCREEN, and
\* whether clutter_actor_event (the handlers of the raw event) returns TRUE
clutter_stage_event(ev) ==
  /\ \E r \in {StageEvent(is_fullscreen, ev)} :
       /\ is_fullscreen' = r.value
       /\ delivered' = [made |-> TRUE, type |-> ev.type,
                        changed |-> ev.changed, new |-> ev.new,
                        handled |-> ev.handled, before |-> is_fullscreen,
                        signal |-> r.signal, retval |-> r.retval]
  /\ asked' = NoRequest
  /\ UNCHANGED <<is_cursor_visible, is_user_resizable, iface,
                 feature_user_resize>>
  /\ UNCHANGED <<oneVars, managerVars, timelineVars, timelineHist, restVars>>

\* ------------------------------------------------------------------------
\* Operations on the timeline.  They are called by the application between
\* ticks, or by a signal handler while timeline_timeout_func emits.
\* ------------------------------------------------------------------------

\* timeline source ids in use
TimelineBusy == timeline_sources \cup ({ticking} \ {0})

Fps == {25, 50}

Elapsed == 0..MaxSkip

Msecs == {0, 1}

TimelineCall(op, arg) ==
  IF observe = "timeline" THEN [op |-> op, arg |-> arg] ELSE tl_call

\* the history after new-frame is emitted with frame number f
EmitNewFrame(e, f) ==
  IF observe = "run"
  THEN [e EXCEPT !.last = f,
                 !.ordered = (@ /\ f >= e.last /\ f <= nframes),
                 !.late = (@ \/ e.completed > 0)]
  ELSE e

\* the history after completed is emitted
EmitCompleted(e) ==
  IF observe = "run" THEN [e EXCEPT !.completed = Min(@ + 1, 2)] ELSE e

otherVars == <<oneVars, managerVars, windowVars, restVars>>

clutter_timeline_start ==
  /\ \E r \in {TimelineStart(timeout_id, timeline_sources, TimelineBusy)} :
       /\ timeout_id' = r.timeout_id
       /\ timeline_sources' = r.sources
  /\ tl_call' = TimelineCall("start", 0)
  /\ paused' = NotPaused
  /\ UNCHANGED <<fps, nframes, current_frame_num, last_frame_msecs, loop,
                 ticking, tick_pc, emitted>>
  /\ UNCHANGED otherVars

clutter_timeline_pause ==
  /\ \E r \in {TimelinePause(timeout_id, timeline_sources)} :
       /\ timeout_id' = r.timeout_id
       /\ timeline_sources' = r.sources
  /\ last_frame_msecs' = 0
  /\ tl_call' = TimelineCall("pause", 0)
  /\ paused' = IF observe = "timeline"
               THEN [made |-> TRUE, frame |-> current_frame_num]
               ELSE paused
  /\ UNCHANGED <<fps, nframes, current_frame_num, loop, ticking, tick_pc,
                 emitted>>
  /\ UNCHANGED otherVars

\* clutter_timeline_stop: clutter_timeline_pause, clutter_timeline_rewind
clutter_timeline_stop ==
  /\ \E r \in {TimelinePause(timeout_id, timeline_sources)} :
       /\ timeout_id' = r.timeout_id
       /\ timeline_sources' = r.sources
  /\ last_frame_msecs' = 0
  /\ current_frame_num' = TimelineRewind(current_frame_num, nframes)
  /\ tl_call' = TimelineCall("stop", 0)
  /\ paused' = NotPaused
  /\ UNCHANGED <<fps, nframes, loop, ticking, tick_pc, emitted>>
  /\ UNCHANGED otherVars

clutter_timeline_set_loop(l) ==
  /\ loop' = l
  /\ tl_call' = TimelineCall("set_loop", 0)
  /\ UNCHANGED <<timeout_id, fps, nframes, current_frame_num,
                 last_frame_msecs, timeline_sources, ticking, tick_pc,
                 paused, emitted>>
  /\ UNCHANGED otherVars

clutter_timeline_rewind ==
  /\ current_frame_num' = TimelineRewind(current_frame_num, nframes)
  /\ tl_call' = TimelineCall("rewind", 0)
  /\ paused' = NotPaused
  /\ UNCHANGED <<timeout_id, fps, nframes, last_frame_msecs, loop,
                 timeline_sources, ticking, tick_pc, emitted>>
  /\ UNCHANGED otherVars

clutter_timeline_skip(n) ==
  /\ current_frame_num' = TimelineSkip(current_frame_num, nframes, n)
  /\ tl_call' = TimelineCall("skip", n)
  /\ paused' = NotPaused
  /\ UNCHANGED <<timeout_id, fps, nframes, last_frame_msecs, loop,
                 timeline_sources, ticking, tick_pc, emitted>>
  /\ UNCHANGED otherVars

clutter_timeline_advance(frame_num) ==
  /\ current_frame_num' = TimelineAdvance(current_frame_num, nframes, frame_num)
  /\ tl_call' = TimelineCall("advance", frame_num)
  /\ paused' = NotPaused
  /\ UNCHANGED <<timeout_id, fps, nframes, last_frame_msecs, loop,
                 timeline_sources, ticking, tick_pc, emitted>>
  /\ UNCHANGED otherVars

clutter_timeline_set_speed(f) ==
  /\ fps' = f
  /\ \E r \in {TimelineSetSpeed(timeout_id, timeline_sources, TimelineBusy)} :
       /\ timeout_id' = r.timeout_id
       /\ timeline_sources' = r.sources
  /\ tl_call' = TimelineCall("set_speed", 0)
  /\ UNCHANGED <<nframes, current_frame_num, last_frame_msecs, loop, ticking,
                 tick_pc, paused, emitted>>
  /\ UNCHANGED otherVars

clutter_timeline_dispose ==
  /\ \E r \in {TimelinePause(timeout_id, timeline_sources)} :
       /\ timeout_id' = r.timeout_id
       /\ timeline_sources' = r.sources
  /\ tl_call' = TimelineCall("dispose", 0)
  /\ UNCHANGED <<fps, nframes, current_frame_num, last_frame_msecs, loop,
                 ticking, tick_pc, paused, emitted>>
  /\ UNCHANGED otherVars

\* The main loop dispatches timeout source s: timeline_timeout_func runs up
\* to its first emission of new-frame (line 233).
timeline_timeout_func(s) ==
  /\ ticking = 0
  /\ s \in timeline_sources
  /\ ticking' = s
  /\ tick_pc' = "new-frame"
  /\ emitted' = EmitNewFrame(emitted, current_frame_num)
  /\ tl_call' = NoTimelineCall
  /\ paused' = NotPaused
  /\ UNCHANGED <<timeout_id, fps, nframes, current_frame_num,
                 last_frame_msecs, loop, timeline_sources>>
  /\ UNCHANGED otherVars

\* timeline_timeout_func returns: FALSE makes the main loop destroy the
\* source that was dispatched
TickReturns(keep, srcs) ==
  /\ ticking' = 0
  /\ tick_pc' = "idle"
  /\ timeline_sources' = IF keep THEN srcs ELSE srcs \ {ticking}

\* "if (priv->loop) clutter_timeline_rewind (timeline); else {
\*    clutter_timeline_stop (timeline); g_signal_emit (... COMPLETED ...)"
\* (lines 282-289), with the frame number cur
TickLoopOrStop(cur) ==
  IF loop
  THEN /\ current_frame_num' = TimelineRewind(cur, nframes)
       /\ TickReturns(TRUE, timeline_sources)
       /\ UNCHANGED <<timeout_id, emitted>>
  ELSE \E r \in {TimelinePause(timeout_id, timeline_sources)} :
       /\ timeout_id' = r.timeout_id
       /\ timeline_sources' = r.sources
       /\ current_frame_num' = TimelineRewind(cur, nframes)
       /\ tick_pc' = "completed"
       /\ emitted' = EmitCompleted(emitted)
       /\ UNCHANGED ticking

\* The handlers of the first new-frame have returned: timeline_timeout_func
\* runs on (lines 236-292) to its next emission or to its return.  elapsed
\* and msecs come from the clock.
timeline_after_new_frame(elapsed, msecs) ==
  /\ tick_pc = "new-frame"
  /\ tl_call' = NoTimelineCall
  /\ IF timeout_id = 0
     THEN /\ current_frame_num' = TimelineRewind(current_frame_num, nframes)
          /\ last_frame_msecs' = 0
          /\ TickReturns(FALSE, timeline_sources)
          /\ UNCHANGED <<timeout_id, emitted>>
     ELSE \E n \in {TimelineFrames(last_frame_msecs, elapsed)} :
          IF current_frame_num + n > nframes
          THEN IF n > 1
               THEN /\ current_frame_num' = nframes
                    /\ last_frame_msecs' = msecs
                    /\ tick_pc' = "new-frame-last"
                    /\ emitted' = EmitNewFrame(emitted, nframes)
                    /\ UNCHANGED <<timeout_id, timeline_sources, ticking>>
               ELSE /\ last_frame_msecs' = IF loop THEN msecs ELSE 0
                    /\ TickLoopOrStop(nframes)
          ELSE /\ current_frame_num' = current_frame_num + n
               /\ last_frame_msecs' = msecs
               /\ TickReturns(TRUE, timeline_sources)
               /\ UNCHANGED <<timeout_id, emitted>>
  /\ UNCHANGED <<fps, nframes, loop, paused>>
  /\ UNCHANGED otherVars

\* the handlers of the second new-frame (line 279) have returned
timeline_after_last_frame ==
  /\ tick_pc = "new-frame-last"
  /\ tl_call' = NoTimelineCall
  /\ last_frame_msecs' = IF loop THEN last_frame_msecs ELSE 0
  /\ TickLoopOrStop(current_frame_num)
  /\ UNCHANGED <<fps, nframes, loop, paused>>
  /\ UNCHANGED otherVars

\* the handlers of completed have returned: timeline_timeout_func returns
\* FALSE
timeline_after_completed ==
  /\ tick_pc = "completed"
  /\ tl_call' = NoTimelineCall
  /\ TickReturns(FALSE, timeline_sources)
  /\ UNCHANGED <<timeout_id, fps, nframes, current_frame_num,
                 last_frame_msecs, loop, paused, emitted>>
  /\ UNCHANGED otherVars

\* g_object_set (stage, "offscreen", value): clutter_stage_set_property
\* with PROP_OFFSCREEN on a stage that was not disposed
clutter_stage_set_offscreen(value) ==
  /\ ~disposed
  /\ \E ok \in BOOLEAN :
       \E r \in {SetOffscreen(is_offscreen, realized, value, ok)} :
         /\ is_offscreen' = r.is_offscreen
         /\ realized' = r.realized
         /\ offscreen_set' = [made |-> TRUE, value |-> value,
                              before |-> is_offscreen,
                              was_realized |-> realized,
                              ok |-> ok, unrealized |-> r.unrealized]
  /\ call' = NoCall
  /\ picked' = FALSE
  /\ UNCHANGED <<stageVars, in_paint, in_destruction, disposed,
                 buffer_age_feature, cogVars, loopVars, observe, frame, marks,
                 frame_clean, redraw_queued, requests, served, lifeVars>>
  /\ UNCHANGED <<managerVars, windowVars, timelineVars, timelineHist,
                 focusVars, pixels_read>>

\* the arguments clutter_stage_read_pixels is called with
ReadXs == {-1, 0}
ReadYs == -1..(StageHeight - 1)
ReadWidths == {-1, 1, StageWidth + 1}
ReadHeights == -1..(StageHeight + 1)

\* clutter_stage_read_pixels between frames: the arguments are checked,
\* clutter_redraw paints the stage whole (an unrealized stage is not
\* painted), then the pixels are read back
clutter_stage_read_pixels(x, y, width, height, age) ==
  /\ ~disposed
  /\ ~in_paint
  /\ dispatching = 0
  /\ \E r \in {ReadPixels(x, y, width, height, StageWidth, StageHeight)} :
       /\ pixels_read' = [made |-> TRUE, x |-> x, y |-> y, width |-> width,
                          height |-> height, read |-> r]
       /\ IF r.ok /\ realized
          THEN \E res \in {PaintResolve(damaged_area, damage_history, age)} :
                 /\ damaged_area' =
                      ResetDamagedArea(res.damaged_area,
                                       UpdateArea(res.damaged_area))
                 /\ damage_history' = res.damage_history
          ELSE UNCHANGED <<damaged_area, damage_history>>
  /\ call' = NoCall
  /\ picked' = FALSE
  /\ UNCHANGED <<update_idle, shaped_mode, flagVars, cogVars, loopVars,
                 observe, frame, marks, frame_clean, redraw_queued, requests,
                 served, lifeVars>>
  /\ UNCHANGED <<managerVars, windowVars, timelineVars, timelineHist,
                 focusVars, offscreenVars>>

\* ------------------------------------------------------------------------
\* Operations on the key focus
\* ------------------------------------------------------------------------

ActorIds == 1..MaxActors

focusOther == <<oneVars, managerVars, windowVars, timelineVars, timelineHist,
                offscreenVars, pixels_read>>

\* clutter_stage_set_key_focus on a live actor, or on NULL
clutter_stage_set_key_focus(actor) ==
  /\ actor \in ({0} \cup ActorIds) \ dead_actors
  /\ \E r \in {SetKeyFocus(key_focused_actor, weak_refs, actor)} :
       /\ key_focused_actor' = r.key_focused_actor
       /\ weak_refs' = r.weak_refs
       /\ focus_change' = [made |-> TRUE, op |-> "set",
                           from |-> GetKeyFocus(key_focused_actor),
                           out |-> r.out, in |-> r.in]
  /\ UNCHANGED dead_actors
  /\ UNCHANGED focusOther

\* actor gone is finalized while the stage holds a weak reference on it:
\* GObject drops the weak reference and calls on_key_focused_weak_notify
on_key_focused_weak_notify(gone) ==
  /\ gone \in weak_refs
  /\ \E r \in {KeyFocusedWeakNotify(weak_refs, gone)} :
       /\ key_focused_actor' = r.key_focused_actor
       /\ weak_refs' = r.weak_refs
       /\ focus_change' = [made |-> TRUE, op |-> "weak-notify",
                           from |-> GetKeyFocus(key_focused_actor),
                           out |-> r.out, in |-> r.in]
  /\ dead_actors' = dead_actors \cup {gone}
  /\ UNCHANGED focusOther

\* ------------------------------------------------------------------------
\* Specifications
\* ------------------------------------------------------------------------
Next ==
  \/ clutter_stage_realize
  \/ \E mode \in {0, 1} : clutter_stage_set_shaped_mode(mode)
  \/ \E area \in Areas : clutter_stage_set_damaged_area(area)
  \/ clutter_stage_queue_redraw
  \/ clutter_stage_queue_redraw_damage
  \/ \E s \in sources : \E age \in Ages : redraw_update_idle(s, age)
  \/ clutter_stage_paint_return
  \/ clutter_actor_destroy
  \/ clutter_stage_dispose
  \/ clutter_stage_pick
  \/ clutter_stage_new
  \/ clutter_stage_get_default
  \/ \E created \in BOOLEAN : clutter_stage_init(created)
  \/ clutter_stage_constructed
  \/ \E s \in StageIds : clutter_stage_dispose_impl(s)
  \/ clutter_stage_fullscreen
  \/ clutter_stage_unfullscreen
  \/ \E resizable \in BOOLEAN : clutter_stage_set_user_resizable(resizable)
  \/ clutter_stage_show_cursor
  \/ clutter_stage_hide_cursor
  \/ \E ev \in Events : clutter_stage_event(ev)
  \/ clutter_timeline_start
  \/ clutter_timeline_pause
  \/ clutter_timeline_stop
  \/ \E l \in BOOLEAN : clutter_timeline_set_loop(l)
  \/ clutter_timeline_rewind
  \/ \E n \in 1..MaxSkip : clutter_timeline_skip(n)
  \/ \E frame_num \in 0..(MaxFrames + 1) : clutter_timeline_advance(frame_num)
  \/ \E f \in Fps : clutter_timeline_set_speed(f)
  \/ clutter_timeline_dispose
  \/ \E s \in timeline_sources : timeline_timeout_func(s)
  \/ \E elapsed \in Elapsed : \E msecs \in Msecs :
       timeline_after_new_frame(elapsed, msecs)
  \/ timeline_after_last_frame
  \/ timeline_after_completed
  \/ \E actor \in {0} \cup ActorIds : clutter_stage_set_key_focus(actor)
  \/ \E gone \in ActorIds : on_key_focused_weak_notify(gone)
  \/ \E value \in BOOLEAN : clutter_stage_set_offscreen(value)
  \/ \E x \in ReadXs, y \in ReadYs, width \in ReadWidths,
        height \in ReadHeights, age \in 0..MaxAge :
       clutter_stage_read_pixels(x, y, width, height, age)

Spec == Init /\ [][Next]_vars

\* single calls of clutter_stage_set_damaged_area, every area
NextArea ==
  ~call.made /\ \E area \in AllAreas : clutter_stage_set_damaged_area(area)

SpecArea == InitArea /\ [][NextArea]_vars

\* frames of a live stage: damage is marked and redraws are requested
\* between frames, the callback paints
NextDamage ==
  \/ clutter_stage_realize
  \/ ~in_paint /\ \E area \in Areas : clutter_stage_set_damaged_area(area)
  \/ ~in_paint /\ clutter_stage_queue_redraw
  \/ ~in_paint /\ clutter_stage_queue_redraw_damage
  \/ \E s \in sources : \E age \in Ages : redraw_update_idle(s, age)
  \/ clutter_stage_paint_return

SpecDamage == InitDamage /\ [][NextDamage]_vars

\* the scheduler through the life of a stage: requests at any time, also
\* while the stage is painted, shaped mode, destruction
NextSched ==
  \/ clutter_stage_realize
  \/ \E mode \in {0, 1} : clutter_stage_set_shaped_mode(mode)
  \/ \E area \in SchedAreas : clutter_stage_set_damaged_area(area)
  \/ clutter_stage_queue_redraw
  \/ clutter_stage_queue_redraw_damage
  \/ \E s \in sources : \E age \in SchedAges : redraw_update_idle(s, age)
  \/ clutter_stage_paint_return
  \/ clutter_actor_destroy
  \/ clutter_stage_dispose

SpecSched == InitSched /\ [][NextSched]_vars

\* the main loop dispatches an attached source
DispatchRedraw ==
  \E s \in sources : \E age \in SchedAges : redraw_update_idle(s, age)

\* the life of a stage under a fair main loop: an attached source is
\* dispatched, and a paint that was started returns
NextLive ==
  \/ clutter_stage_realize
  \/ \E mode \in {0, 1} : clutter_stage_set_shaped_mode(mode)
  \/ \E area \in SchedAreas : clutter_stage_set_damaged_area(area)
  \/ clutter_stage_queue_redraw
  \/ clutter_stage_queue_redraw_damage
  \/ DispatchRedraw
  \/ clutter_stage_paint_return
  \/ clutter_actor_destroy
  \/ clutter_stage_dispose

SpecLive ==
  /\ InitLive
  /\ [][NextLive]_vars
  /\ WF_vars(DispatchRedraw)
  /\ WF_vars(clutter_stage_paint_return)

\* whole paints, one after the other, in both modes: damage is marked at
\* any time, also while the stage is painted, and the stage is picked
\* between frames
NextPaint ==
  \/ clutter_stage_realize
  \/ \E area \in PaintAreas : clutter_stage_set_damaged_area(area)
  \/ clutter_stage_queue_redraw_damage
  \/ \E s \in sources : \E age \in PaintAges : redraw_update_idle(s, age)
  \/ clutter_stage_paint_return
  \/ clutter_stage_pick

SpecPaint == InitPaint /\ [][NextPaint]_vars

\* frames of a live stage whose backend reports any age
NextAges ==
  \/ clutter_stage_realize
  \/ ~in_paint /\ \E area \in SchedAreas : clutter_stage_set_damaged_area(area)
  \/ ~in_paint /\ clutter_stage_queue_redraw
  \/ ~in_paint /\ clutter_stage_queue_redraw_damage
  \/ \E s \in sources : \E age \in HistoryAges : redraw_update_idle(s, age)
  \/ clutter_stage_paint_return

SpecAges == InitAges /\ [][NextAges]_vars

\* stage instances are constructed and disposed, with a backend that may
\* fail to create an implementation; a construction that was started runs on
InitStages ==
  /\ observe = "stages"
  /\ damaged_area = ZeroRect
  /\ buffer_age_feature = TRUE
  /\ InitOne
  /\ feature_stage_multiple \in BOOLEAN
  /\ InitManager
  /\ iface = AllHooks
  /\ feature_user_resize = TRUE
  /\ InitWindow
  /\ nframes = 0
  /\ InitTimeline
  /\ InitRest

StageInitRuns == \E created \in BOOLEAN : clutter_stage_init(created)

NextStages ==
  \/ clutter_stage_new
  \/ clutter_stage_get_default
  \/ StageInitRuns
  \/ clutter_stage_constructed
  \/ \E s \in StageIds : clutter_stage_dispose_impl(s)

SpecStages ==
  /\ InitStages
  /\ [][NextStages]_vars
  /\ WF_vars(StageInitRuns)
  /\ WF_vars(clutter_stage_constructed)

\* requests to the window of a stage, for every set of hooks the backend
\* may implement
InitRequests ==
  /\ observe = "window"
  /\ damaged_area = ZeroRect
  /\ buffer_age_feature = TRUE
  /\ InitOne
  /\ feature_stage_multiple = TRUE
  /\ InitManager
  /\ iface \in Hooks
  /\ feature_user_resize \in BOOLEAN
  /\ InitWindow
  /\ nframes = 0
  /\ InitTimeline
  /\ InitRest

NextRequests ==
  \/ clutter_stage_fullscreen
  \/ clutter_stage_unfullscreen
  \/ \E resizable \in BOOLEAN : clutter_stage_set_user_resizable(resizable)
  \/ clutter_stage_show_cursor
  \/ clutter_stage_hide_cursor
  \/ \E ev \in Events : clutter_stage_event(ev)
  \/ clutter_stage_realize
  \/ \E value \in BOOLEAN : clutter_stage_set_offscreen(value)

SpecRequests == InitRequests /\ [][NextRequests]_vars

\* a timeline of any length, driven by the application and by handlers
\* of its signals
InitTimelineOf(mode, lengths) ==
  /\ observe = mode
  /\ damaged_area = ZeroRect
  /\ buffer_age_feature = TRUE
  /\ InitOne
  /\ feature_stage_multiple = TRUE
  /\ InitManager
  /\ iface = AllHooks
  /\ feature_user_resize = TRUE
  /\ InitWindow
  /\ nframes \in lengths
  /\ InitTimeline
  /\ InitRest

InitCalls == InitTimelineOf("timeline", 0..MaxFrames)

TimelineTicks ==
  \/ \E s \in timeline_sources : timeline_timeout_func(s)
  \/ \E elapsed \in Elapsed : \E msecs \in Msecs :
       timeline_after_new_frame(elapsed, msecs)
  \/ timeline_after_last_frame
  \/ timeline_after_completed

NextCalls ==
  \/ clutter_timeline_start
  \/ clutter_timeline_pause
  \/ clutter_timeline_stop
  \/ \E l \in BOOLEAN : clutter_timeline_set_loop(l)
  \/ clutter_timeline_rewind
  \/ \E n \in 1..MaxSkip : clutter_timeline_skip(n)
  \/ \E frame_num \in 0..(MaxFrames + 1) : clutter_timeline_advance(frame_num)
  \/ \E f \in Fps : clutter_timeline_set_speed(f)
  \/ clutter_timeline_dispose
  \/ TimelineTicks

SpecCalls == InitCalls /\ [][NextCalls]_vars

\* a timeline of at least one frame that is started once and left running:
\* handlers make no calls.  The main loop dispatches the timeout source,
\* the handlers return, and time passes: among the ticks of a playing
\* timeline there is always a later one that finds a frame interval elapsed.
InitRun == InitTimelineOf("run", 1..MaxFrames)

NotStarted == timeout_id = 0 /\ emitted.last = -1

TimelineDispatch == \E s \in timeline_sources : timeline_timeout_func(s)

TimelineAdvances ==
  \E elapsed \in 1..MaxSkip : \E msecs \in Msecs :
    timeline_after_new_frame(elapsed, msecs)

NextRun ==
  \/ NotStarted /\ \E l \in BOOLEAN : clutter_timeline_set_loop(l)
  \/ NotStarted /\ clutter_timeline_start
  \/ TimelineTicks

SpecRun ==
  /\ InitRun
  /\ [][NextRun]_vars
  /\ WF_vars(TimelineDispatch)
  /\ SF_vars(TimelineAdvances)
  /\ WF_vars(timeline_after_last_frame)
  /\ WF_vars(timeline_after_completed)

\* the key focus moves between the stage and its actors, and focused
\* actors are finalized
InitKeyFocus ==
  /\ observe = "focus"
  /\ damaged_area = ZeroRect
  /\ buffer_age_feature = TRUE
  /\ InitOne
  /\ InitFar

NextKeyFocus ==
  \/ \E actor \in {0} \cup ActorIds : clutter_stage_set_key_focus(actor)
  \/ \E gone \in ActorIds : on_key_focused_weak_notify(gone)

SpecKeyFocus == InitKeyFocus /\ [][NextKeyFocus]_vars

\* regions of the stage are read back, any damage pending

InitReadPixels ==
  /\ observe = "pixels"
  /\ damaged_area = ZeroRect
  /\ buffer_age_feature \in BOOLEAN
  /\ InitOne
  /\ InitFar

NextReadPixels ==
  \/ clutter_stage_realize
  \/ \E area \in SchedAreas : clutter_stage_set_damaged_area(area)
  \/ \E x \in ReadXs, y \in ReadYs, width \in ReadWidths,
        height \in ReadHeights, age \in PaintAges :
       clutter_stage_read_pixels(x, y, width, height, age)

SpecReadPixels == InitReadPixels /\ [][NextReadPixels]_vars

\* ------------------------------------------------------------------------
\* Properties
\* ------------------------------------------------------------------------

\* the frame being painted resolved its damage against a reported buffer age
AgedFrame == frame.active /\ buffer_age_feature /\ frame.age >= 1

\* the history entries a back buffer of the frame's age is missing
Missing(f) == { f.prior[i] : i \in 1..f.age }

\* C1: from a frame start with no pending damage, after any calls of
\* clutter_stage_set_damaged_area with positive-size rectangles the pending
\* damaged_area is the smallest rectangle enclosing the rectangles' visible
\* parts (none if there is none), whatever the order of the calls.
C1_BoundingBoxUnion ==
  frame_clean =>
    damaged_area = IF marks = {} THEN ZeroRect ELSE BoundingBox(marks)

\* two different rectangles were marked and their union is not the stage
C1_Witness ==
  /\ frame_clean
  /\ Cardinality(marks) >= 2
  /\ damaged_area /= StageGeometry
  /\ damaged_area \notin marks

\* C2: in buffer-age mode with age >= 1 and at least `age` history entries,
\* the region drawn contains the frame's positive-size pending damage and
\* every positive-size rectangle among the `age` most recent entries.
C2_NeverUnderApproximates ==
  (AgedFrame /\ Len(frame.prior) >= frame.age) =>
    \A r \in {frame.pending} \cup Missing(frame) :
      IsValid(r) => Contains(Drawn(frame), r)

\* C3: in buffer-age mode a paint with reported age 0 is a full redraw
\* (no clip, background cleared) and leaves the damage history empty.
C3_AgeZeroFullRedraw ==
  (frame.active /\ buffer_age_feature /\ frame.age = 0) =>
    /\ ~frame.update_area
    /\ ~frame.clip
    /\ frame.clear
    /\ damage_history = <<>>

\* C4 as claimed: for a rectangle with width <= 0 or height <= 0,
\* clutter_stage_set_damaged_area leaves the pending damaged_area as it was.
C4_InvalidAreaNoOp ==
  (call.made /\ ~IsValid(call.area)) => damaged_area = call.before

\* C4 as amended: for a rectangle with width <= 0 or height <= 0,
\* clutter_stage_set_damaged_area sets the pending damaged_area to the
\* invalid rectangle {0,0,0,0}, whatever it was before.
C4_InvalidAreaInvalidates ==
  (call.made /\ ~IsValid(call.area)) => damaged_area = ZeroRect

\* an invalid rectangle was passed while positive-size damage was pending
C4_Witness ==
  call.made /\ ~IsValid(call.area) /\ IsValid(call.before)

\* C5: in buffer-age mode a paint with age >= 1 and fewer than `age`
\* history entries from earlier frames invalidates the pending damage and
\* is a full redraw.
C5_TooOldFullRedraw ==
  (AgedFrame /\ Len(frame.prior) < frame.age) =>
    /\ frame.resolved = ZeroRect
    /\ ~frame.update_area
    /\ frame.clear

\* small damage was pending and the history was not empty, yet too short
C5_Witness ==
  /\ AgedFrame
  /\ Len(frame.prior) < frame.age
  /\ Len(frame.prior) >= 1
  /\ IsValid(frame.pending)
  /\ frame.pending /= StageGeometry

\* C6: in buffer-age mode with age >= 1, at least `age` history entries and
\* the pending rectangle and the `age` most recent entries all of positive
\* size on the stage, the resolved damaged_area is the bounding box of
\* exactly these rectangles.
C6_ResolvedIsBoundingBox ==
  ( /\ AgedFrame
    /\ Len(frame.prior) >= frame.age
    /\ \A r \in {frame.pending} \cup Missing(frame) :
         IsValid(r) /\ Contains(StageGeometry, r) ) =>
    frame.resolved = BoundingBox({frame.pending} \cup Missing(frame))

\* C7: after clutter_stage_queue_redraw the pending damage covers the whole
\* stage (or is invalid, which stands for it) and the next frame painted is
\* a full redraw, whatever areas are marked before that frame and whatever
\* buffer age and history it is resolved against.
C7_QueueRedrawFullFrame ==
  /\ (redraw_queued /\ ~in_paint) =>
       (~IsValid(damaged_area) \/ Contains(damaged_area, StageGeometry))
  /\ (frame.active /\ frame.queued) => (~frame.update_area /\ frame.clear)

\* C8: a stage has at most one outstanding repaint source, and update_idle
\* is non-zero exactly when there is one, and is then its id.
C8_OneRepaintSource ==
  /\ Cardinality(sources) <= 1
  /\ update_idle /= 0 <=> sources /= {}
  /\ update_idle /= 0 => update_idle \in sources

\* requests made after the stage was disposed left one source, not more
C8_Witness ==
  /\ disposed
  /\ requests >= 2
  /\ sources = {update_idle}
  /\ update_idle /= 0

\* some requests are waiting: exactly one source is attached for them
OneSourceOutstanding ==
  /\ update_idle /= 0
  /\ sources = {update_idle}
  /\ update_idle /= dispatching

\* C9 as claimed: N >= 1 redraw requests between two runs of the callback
\* cause exactly one invocation of clutter_redraw.
C9_ExactlyOneRedraw ==
  /\ requests >= 1 => OneSourceOutstanding
  /\ (served.ran /\ served.requests >= 1) => served.redraws = 1

\* C9 as amended: N >= 1 redraw requests made on a stage that is not in
\* destruction leave exactly one callback outstanding, and the callback,
\* when it runs, invokes clutter_redraw exactly once if shaped_mode is 0
\* and not at all if shaped_mode is non-zero.
C9_OneRedrawUnlessShaped ==
  /\ (requests >= 1 /\ ~in_destruction) => OneSourceOutstanding
  /\ (served.ran /\ ~served.shaped) => served.redraws = 1
  /\ (served.ran /\ served.shaped) => served.redraws = 0

\* two or more requests were served by one invocation
C9_Witness ==
  /\ served.ran
  /\ served.requests >= 2
  /\ ~served.shaped
  /\ served.redraws = 1
  /\ in_paint

\* C10: update_idle is 0 when the callback invokes the render loop, the
\* source that is being dispatched is no longer attached, and a request
\* made while the stage is painted attaches a new source, different from
\* the one being dispatched; the callback invokes the render loop at most
\* once.
C10_IdleBeforeRedraw ==
  /\ frame.active => frame.idle_at_redraw = 0
  /\ in_paint => (dispatching /= 0 /\ dispatching \notin sources)
  /\ (in_paint /\ requests >= 1 /\ ~in_destruction) => OneSourceOutstanding
  /\ served.redraws <= 1

\* a request was made while the stage was being painted
C10_Witness ==
  /\ in_paint
  /\ frame.active
  /\ requests >= 1
  /\ update_idle /= 0
  /\ update_idle /= dispatching

\* the stage is being destroyed or has been disposed
Destroyed == in_destruction \/ disposed

\* C11 as claimed: after a redraw request on a stage that is not destroyed
\* the render loop eventually runs, and the stage is never left with the
\* request unpainted and no callback scheduled.
C11_RequestEventuallyRendered ==
  /\ []((owed \in {"requested", "dropped"} /\ ~Destroyed) => update_idle /= 0)
  /\ (owed = "requested") ~> (owed = "rendered" \/ Destroyed)

\* C11 as amended: after a redraw request on a stage that is not destroyed
\* a callback stays scheduled until it is dispatched or the stage is
\* disposed; under a fair main loop it is eventually dispatched (unless the
\* stage is disposed first) and invokes the render loop if shaped_mode is 0
\* at that time; only if shaped_mode is non-zero the request is dropped.
C11_RequestEventuallyServed ==
  /\ []((owed = "requested" /\ ~disposed) =>
         (update_idle /= 0 /\ update_idle \in sources))
  /\ [][(owed = "requested" /\ owed' = "dropped") => shaped_mode /= 0]_vars
  /\ (owed = "requested") ~> (owed \in {"rendered", "dropped"} \/ disposed)

\* a request was served: the callback invoked the render loop, which paints
C11_Witness ==
  /\ observe = "live"
  /\ owed = "rendered"
  /\ in_paint
  /\ ~Destroyed

\* C12: the step that disposes a stage leaves no repaint callback attached
\* and update_idle 0, so a callback that was scheduled when the stage was
\* disposed can no longer be dispatched; after it the stage is unrealized,
\* its damage history is empty and its implementation is released.
C12_DisposeCancels ==
  [][(~disposed /\ disposed') =>
       /\ update_idle' = 0
       /\ sources' = {}
       /\ ~realized'
       /\ damage_history' = <<>>
       /\ ~impl']_vars

\* a realized stage with a history was disposed while a callback was
\* scheduled
C12_Witness ==
  /\ disposal.ran
  /\ disposal.idle /= 0
  /\ disposal.realized
  /\ disposal.entries >= 2
  /\ disposed
  /\ sources = {}

\* C13: once a stage is in destruction or disposed and has no repaint
\* callback, no operation leaves one outstanding: update_idle stays 0 and
\* no source is attached that would invoke the render loop.
C13_NoCallbackAfterDestruction ==
  [][(Destroyed /\ update_idle = 0 /\ sources = {}) =>
       (update_idle' = 0 /\ sources' = {})]_vars

\* the frame being painted is resolved without buffer ages
FallbackFrame == frame.active /\ ~buffer_age_feature

\* C14: in fallback mode, when the pending damage of the frame and the
\* pending damage the previous frame started with are both of positive
\* size, the resolved rectangle is the bounding box of these two, and the
\* frame is a partial redraw unless that box is the whole stage.
C14_FallbackTwoFrames ==
  ( /\ FallbackFrame
    /\ completed.done
    /\ IsValid(frame.pending)
    /\ IsValid(completed.pending) ) =>
    /\ frame.resolved = BoundingBox({frame.pending, completed.pending})
    /\ frame.resolved /= StageGeometry => frame.update_area

\* C15 as claimed: the newest history entry of a frame is the rectangle
\* resolved for the frame.
C15_NewestEntryIsResolved ==
  (frame.active /\ damage_history /= <<>>) =>
    damage_history[1] = frame.resolved

\* C15 as amended: in buffer-age mode the newest history entry of a frame
\* is the pending rectangle the frame started with (with age 0 the history
\* is empty); in fallback mode the single history slot is the rectangle
\* resolved for the frame.
C15_NewestEntryIsFrameDamage ==
  frame.active =>
    IF buffer_age_feature
    THEN IF frame.age = 0
         THEN damage_history = <<>>
         ELSE damage_history /= <<>> /\ damage_history[1] = frame.pending
    ELSE Len(damage_history) = 1 /\ damage_history[1] = frame.resolved

\* the merge with the history enlarged small pending damage
C15_Witness ==
  /\ AgedFrame
  /\ IsValid(frame.pending)
  /\ IsValid(frame.resolved)
  /\ frame.resolved /= frame.pending
  /\ frame.update_area

\* C16: the damage history never holds more than MAX_BUFFER_AGE + 2
\* entries, whatever ages the backend reports.
C16_HistoryBounded == Len(damage_history) <= HistoryBound

\* C17: after clutter_stage_set_damaged_area with any rectangle, on a stage
\* whose pending damage was invalid or inside the stage, the pending damage
\* is {0,0,0,0} or a positive-size rectangle inside [0,W] x [0,H]; a
\* positive-size rectangle wholly off the stage leaves it unchanged, and
\* one partly on the stage contributes its visible part.
C17_PendingInsideStage ==
  call.made =>
    /\ damaged_area \in { d \in Pendings : Contains(StageGeometry, d) }
    /\ (IsValid(call.area) /\ ~IsValid(OnStage(call.area))) =>
         damaged_area = call.before
    /\ (IsValid(call.area) /\ IsValid(OnStage(call.area))) =>
         /\ Contains(damaged_area, OnStage(call.area))
         /\ ~IsValid(call.before) => damaged_area = OnStage(call.area)

\* a rectangle beyond the far corner was marked while damage was pending
C17_Witness ==
  /\ call.made
  /\ IsValid(call.area)
  /\ call.area.x >= StageWidth
  /\ call.area.y >= StageHeight
  /\ IsValid(call.before)
  /\ damaged_area = call.before

\* the resolved damage of the frame has positive size and does not cover
\* the stage
PartialFrame ==
  IsValid(frame.resolved) /\ ~Contains(frame.resolved, StageGeometry)

\* C18: while a stage is painted a clip is set if and only if the resolved
\* damage has positive size and does not cover the whole stage, and the
\* buffer was cleared if and only if no clip is set; outside a paint no
\* clip is set (every clip set by a paint is unset before it returns).
C18_ClipIffPartial ==
  /\ in_paint =>
       /\ frame.clip = PartialFrame
       /\ clip_depth = (IF PartialFrame THEN 1 ELSE 0)
       /\ frame.clear = ~PartialFrame
  /\ ~in_paint => clip_depth = 0

\* a partial frame is being painted under a clip, without a clear
C18_Witness ==
  /\ in_paint
  /\ PartialFrame
  /\ clip_depth = 1
  /\ ~frame.clear

\* C19: the step that completes a paint leaves the pending damaged_area
\* {0,0,0,0}, in both modes, for full and partial frames and whatever was
\* marked while the stage was painted.
C19_PendingResetAfterPaint ==
  [][(in_paint /\ ~in_paint') => damaged_area' = ZeroRect]_vars

\* a full frame in buffer-age mode has completed; damage that was marked
\* while it was painted has been reset
C19_Witness ==
  /\ completed.done
  /\ ~completed.update_area
  /\ completed.dirty
  /\ buffer_age_feature
  /\ ~in_paint
  /\ damaged_area = ZeroRect

\* C20: a pick leaves the pending damaged_area, the damage history,
\* update_idle and the attached repaint source as they were.
C20_PickLeavesTracker ==
  [][picked' =>
       /\ damaged_area' = damaged_area
       /\ damage_history' = damage_history
       /\ update_idle' = update_idle
       /\ sources' = sources]_vars

\* the stage was picked with damage pending, a history and a callback
\* scheduled
C20_Witness ==
  /\ picked
  /\ IsValid(damaged_area)
  /\ Len(damage_history) >= 2
  /\ update_idle /= 0

\* ------------------------------------------------------------------------
\* Stage instances
\* ------------------------------------------------------------------------

\* C21: clutter_stage_get_default always returns the same instance: the
\* default stage is created at most once, and every call, in any sequence
\* of stage creations and destructions, returns that instance.
C21_DefaultAlwaysSame == Cardinality(default_returns) <= 1

\* C22: each stage exclusively owns its implementation: no two stages hold
\* the same implementation, and each stage holds exactly one reference on
\* its implementation, released exactly once at dispose, also when the
\* backend failed to create the implementation.
C22_ExclusiveImpl ==
  /\ \A s, t \in LiveStages :
       s /= t /\ stage_impl[s] /= 0 => stage_impl[s] /= stage_impl[t]
  /\ \A s \in LiveStages :
       stage_impl[s] /= 0 => impl_refs[stage_impl[s]] = 1
  /\ ~unref_freed

\* C23: stage construction always terminates when the backend cannot
\* create an implementation: clutter_stage_init falls back to the
\* implementation of an existing default stage or aborts, without unbounded
\* retry or recursion, also when the stage under construction is the first
\* one and no default stage exists.  A construction that runs into the end
\* of the stack never returns.
C23_ConstructionTerminates ==
  (building /= <<>>) ~> (building = <<>> \/ crashed = "assert")

\* ------------------------------------------------------------------------
\* Requests to the stage window
\* ------------------------------------------------------------------------

\* C24: a request the backend does not support (no set_fullscreen,
\* set_cursor_visible or set_user_resizable hook, or user resizing not
\* available) is silently ignored: is_fullscreen, is_cursor_visible and
\* is_user_resizable keep their values, no property is notified and no hook
\* is called.
C24_UnsupportedIgnored ==
  asked.made /\ ~asked.supported =>
    /\ StageFlags = asked.before
    /\ ~asked.notified
    /\ ~asked.called

\* an unsupported request that asked for a change was made
C24_Witness ==
  /\ asked.made
  /\ ~asked.supported
  /\ asked.changes
  /\ asked.op = "set_user_resizable"
  /\ iface.set_user_resizable
  /\ ~feature_user_resize

\* ------------------------------------------------------------------------
\* Timeline
\* ------------------------------------------------------------------------

\* C25: after clutter_timeline_stop returns, from any reachable state and
\* for any num-frames, the timeline is not playing (it has no timeout
\* source) and its current frame number is 0.
C25_StopRewinds ==
  tl_call.op = "stop" =>
    /\ timeout_id = 0
    /\ timeline_sources = {}
    /\ current_frame_num = 0

\* C26: clutter_timeline_pause pauses the timeline on its current frame:
\* once the pause has taken effect the timeline is not playing and the
\* current frame number is the one found when pause was called, also when
\* pause is called by a new-frame handler during a tick.
C26_PauseKeepsFrame ==
  paused.made =>
    /\ timeout_id = 0
    /\ timeline_sources = {}
    /\ current_frame_num = paused.frame

\* C27: clutter_timeline_advance (f) sets the current frame number to f for
\* every f with 0 <= f <= num-frames, the last frame f = num-frames
\* included.
C27_AdvanceSetsFrame ==
  tl_call.op = "advance" /\ tl_call.arg <= nframes =>
    current_frame_num = tl_call.arg

\* C28: a non-looping timeline of N >= 1 frames that is started and left
\* running emits new-frame with frame numbers that never decrease and never
\* exceed N, then emits completed exactly once, after the last new-frame;
\* when completed is emitted the timeline has no timeout source and its
\* current frame number is 0.  A looping timeline never emits completed and
\* keeps its timeout source.
C28_RunsToCompletion ==
  /\ [](~loop =>
          /\ emitted.ordered
          /\ ~emitted.late
          /\ emitted.completed <= 1
          /\ emitted.completed = 1 =>
               /\ timeout_id = 0
               /\ timeline_sources = {}
               /\ current_frame_num = 0)
  /\ [](loop /\ ~NotStarted =>
          /\ emitted.completed = 0
          /\ timeout_id /= 0
          /\ timeline_sources = {timeout_id})
  /\ (~loop /\ timeout_id /= 0) ~> (emitted.completed = 1)

\* a timeline has run through its last frame and completed
C28_Witness ==
  /\ ~loop
  /\ emitted.completed = 1
  /\ emitted.last = nframes
  /\ nframes > 1
  /\ tick_pc = "idle"

\* C29: the timeline has at most one timeout source at any time, and
\* timeout_id is non-zero exactly when that source exists.
C29_OneTimeoutSource ==
  /\ Cardinality(timeline_sources) <= 1
  /\ timeout_id /= 0 <=> timeline_sources /= {}
  /\ timeout_id /= 0 => timeline_sources = {timeout_id}

\* a playing timeline was started again, and a source removed by a handler
\* while it was dispatched was replaced
C29_Witness ==
  /\ tl_call.op = "start"
  /\ ticking /= 0
  /\ timeout_id /= 0
  /\ timeout_id /= ticking

\* C30: in every reachable state 0 <= current_frame_num <= num-frames, for
\* every num-frames, 0 included.
C30_FrameInRange ==
  /\ current_frame_num >= 0
  /\ current_frame_num <= nframes

\* ------------------------------------------------------------------------
\* Fullscreen state
\* ------------------------------------------------------------------------

\* C31: fullscreen changes are asynchronous.  No request changes
\* is_fullscreen: clutter_stage_fullscreen and clutter_stage_unfullscreen
\* only call the hook of the backend, and only when the state asked for
\* differs from is_fullscreen.  is_fullscreen changes only in
\* clutter_stage_event, on a stage-state event whose changed_mask has
\* FULLSCREEN, and the matching signal, fullscreen or unfullscreen, is
\* emitted with it.
C31_FullscreenAsynchronous ==
  /\ asked.made =>
       /\ is_fullscreen = asked.before[1]
       /\ asked.op \in {"fullscreen", "unfullscreen"} =>
            /\ asked.called => asked.changes
            /\ asked.called <=> (asked.changes /\ iface.set_fullscreen)
            /\ ~asked.notified
  /\ delivered.made /\ is_fullscreen /= delivered.before =>
       /\ delivered.type = "stage-state"
       /\ delivered.changed
  /\ delivered.made /\ delivered.signal /= "none" =>
       /\ delivered.type = "stage-state"
       /\ delivered.changed
       /\ delivered.signal = IF is_fullscreen THEN "fullscreen"
                                              ELSE "unfullscreen"
  /\ ~asked.made /\ ~delivered.made => ~is_fullscreen

\* the backend was asked for fullscreen and the stage is not fullscreen yet
C31_Witness ==
  /\ asked.made
  /\ asked.op = "fullscreen"
  /\ asked.called
  /\ ~is_fullscreen

\* C32: after clutter_stage_event has processed a stage-state event whose
\* changed_mask has FULLSCREEN, is_fullscreen is the FULLSCREEN bit of the
\* event's new_state, whatever the handlers of the raw event return.
C32_FlagFollowsEvent ==
  delivered.made /\ delivered.type = "stage-state" /\ delivered.changed =>
    is_fullscreen = delivered.new

\* ------------------------------------------------------------------------
\* Key focus
\* ------------------------------------------------------------------------

\* C33: whenever the holder of the key focus changes, the previous holder
\* receives focus-out and the new holder receives focus-in.  When the
\* focused actor is finalized the focus falls back to the stage:
\* clutter_stage_get_key_focus returns the stage, never NULL or the dead
\* actor, and the stage receives focus-in.
C33_FocusSignals ==
  /\ GetKeyFocus(key_focused_actor) \notin dead_actors
  /\ focus_change.made /\ focus_change.from /= GetKeyFocus(key_focused_actor) =>
       /\ focus_change.in = GetKeyFocus(key_focused_actor)
       /\ focus_change.from \notin dead_actors =>
            focus_change.out = focus_change.from
  /\ focus_change.op = "weak-notify" =>
       /\ GetKeyFocus(key_focused_actor) = 0
       /\ focus_change.in = 0

\* ------------------------------------------------------------------------
\* The offscreen property
\* ------------------------------------------------------------------------

\* C34: setting the offscreen property of a realized stage to a new value v
\* unrealizes the stage and realizes it again; when that fails is_offscreen
\* ends up the negation of v, its value before the call, for v TRUE and for
\* v FALSE, and when it succeeds is_offscreen is v.  Setting the value the
\* property already has changes nothing and does not unrealize.
C34_OffscreenToggle ==
  /\ is_offscreen \in {0, 1}
  /\ offscreen_set.made =>
       IF offscreen_set.before = GBoolean(offscreen_set.value)
       THEN /\ is_offscreen = offscreen_set.before
            /\ ~offscreen_set.unrealized
       ELSE offscreen_set.was_realized =>
              /\ offscreen_set.unrealized
              /\ offscreen_set.ok => is_offscreen = GBoolean(offscreen_set.value)
              /\ ~offscreen_set.ok =>
                   /\ is_offscreen = GBoolean(~offscreen_set.value)
                   /\ is_offscreen = offscreen_set.before

\* realizing the stage again failed after offscreen was set to TRUE
C34_Witness ==
  /\ offscreen_set.made
  /\ offscreen_set.was_realized
  /\ offscreen_set.value
  /\ offscreen_set.before = 0
  /\ ~offscreen_set.ok
  /\ is_offscreen = 0

\* ------------------------------------------------------------------------
\* Reading pixels back
\* ------------------------------------------------------------------------

\* C35: clutter_stage_read_pixels with x >= 0 and y >= 0 reads the stage
\* rows y .. y + height - 1 counted from the top: the origin handed to GL is
\* stage_height - (y + height), never negative for a region inside the
\* stage, and row i of the result is stage row y + i.  A width or height
\* that is negative or larger than the stage is the dimension of the stage.
C35_ReadsRequestedRows ==
  pixels_read.made /\ pixels_read.x >= 0 /\ pixels_read.y >= 0 =>
    /\ pixels_read.read.ok
    /\ pixels_read.read.width = ClampToStage(pixels_read.width, StageWidth)
    /\ pixels_read.read.height = ClampToStage(pixels_read.height, StageHeight)
    /\ pixels_read.y + pixels_read.read.height <= StageHeight =>
         /\ pixels_read.read.y =
              StageHeight - (pixels_read.y + pixels_read.read.height)
         /\ pixels_read.read.y >= 0
         /\ pixels_read.read.rows =
              [i \in 1..pixels_read.read.height |-> pixels_read.y + i - 1]

\* ------------------------------------------------------------------------
\* Shaped mode
\* ------------------------------------------------------------------------

\* C36: while shaped_mode is non-zero the callback of the scheduler never
\* renders a frame: when it fires, update_idle is 0 afterwards, the render
\* loop is not invoked, and the pending damaged_area and the damage history
\* are left as they were.
C36_ShapedNeverRenders ==
  [][(/\ shaped_mode /= 0
      /\ \E s \in sources : \E age \in SchedAges : redraw_update_idle(s, age))
     => /\ update_idle' = 0
        /\ served'.redraws = 0
        /\ ~in_paint'
        /\ frame' = frame
        /\ damaged_area' = damaged_area
        /\ damage_history' = damage_history]_vars

\* the callback has fired in shaped mode while damage was pending
C36_Witness ==
  /\ served.ran
  /\ served.shaped
  /\ served.requests >= 1
  /\ shaped_mode /= 0
  /\ realized
  /\ update_idle = 0
  /\ IsValid(damaged_area)

\* ------------------------------------------------------------------------
\* Fallback mode
\* ------------------------------------------------------------------------

====
